---- MODULE Spec2Model ----
(***************************************************************************)
(* API key lifecycle of memory-bank-mcp's operator tools:                  *)
(*   tools/api-key-manager (app.py, backends.py, keygen.py, screens.py)    *)
(*   tools/api-keys-tui    (app.py, the single-file variant)               *)
(* Key generation, the two backends (HttpBackend, DbBackend), the rotate   *)
(* protocol and the Textual worker groups that serialise the mutations.    *)
(***************************************************************************)
EXTENDS Integers, Sequences, FiniteSets, TLC

VARIABLES
    rows,          \* api_keys table (DbBackend) / the server's key store (HttpBackend)
    now,           \* wall clock, in days
    ret,           \* last backend call made directly, and what it returned
    app,           \* which tool runs the session: "manager" or "tui"
    backend,       \* self.backend: "HTTP" or "DB"
    connected,     \* self.connected (api-key-manager only)
    show_revoked,  \* self.show_revoked / self._show_revoked
    keys,          \* self.keys, the cached list the table shows
    screens,       \* stack of modal screens, top last
    workers,       \* live Textual workers
    users,         \* users table (DbBackend)
    projects,      \* projects table (DbBackend)
    memberships,   \* memberships table (DbBackend)
    conn           \* self._conn of the DbBackend, and the connection behind it

vars == <<rows, now, ret, app, backend, connected, show_revoked, keys, screens,
          workers, users, projects, memberships, conn>>

sessionVars == <<app, backend, connected, show_revoked, keys, screens, workers>>

identityVars == <<users, projects, memberships>>

-----------------------------------------------------------------------------
(* Bounds of the model *)

MaxRows == 2
MaxTime == 2

-----------------------------------------------------------------------------
(* Optional values: Python None / SQL NULL is the empty tuple, a present   *)
(* value v is <<v>>.                                                       *)

None == << >>

Some(v) == <<v>>

-----------------------------------------------------------------------------
(* keygen.py *)

Bad_BASE62 ==
    <<"0","1","2","3","4","5","6","7","8","9",
      "a","b","c","d","e","f","g","h","i","j","k","l","m",
      "n","o","p","q","r","s","t","u","v","w","x","y","z",
      "A","B","C","D","E","F","G","H","I","J","K","L","M",
      "N","O","P","Q","R","S","T","U","V","W","X","Y","Z">>

\* string.digits + string.ascii_uppercase + string.ascii_lowercase
BASE62 ==
    <<"0","1","2","3","4","5","6","7","8","9",
      "A","B","C","D","E","F","G","H","I","J","K","L","M",
      "N","O","P","Q","R","S","T","U","V","W","X","Y","Z",
      "a","b","c","d","e","f","g","h","i","j","k","l","m",
      "n","o","p","q","r","s","t","u","v","w","x","y","z">>

EnvChars(environment) ==
    IF environment = "live" THEN <<"l","i","v","e">> ELSE <<"t","e","s","t">>

\* hashlib.sha256(plaintext.encode()).digest(): an injective tag of the input
hash_api_key(plaintext) == <<"sha256", plaintext>>

\* a generator whose prefix is the whole secret
Bad_generate_api_key(environment, random_bytes) ==
    LET random_str == [i \in 1..Len(random_bytes) |-> BASE62[(random_bytes[i] % 62) + 1]]
        plaintext  == <<"m","b","m","c","p","_">> \o EnvChars(environment)
                      \o <<"_">> \o random_str
    IN  [plaintext |-> plaintext,
         prefix    |-> plaintext,
         hash      |-> hash_api_key(plaintext)]

generate_api_key(environment, random_bytes) ==
    LET random_str == [i \in 1..Len(random_bytes) |-> BASE62[(random_bytes[i] % 62) + 1]]
        plaintext  == <<"m","b","m","c","p","_">> \o EnvChars(environment)
                      \o <<"_">> \o random_str
    IN  [plaintext |-> plaintext,
         prefix    |-> SubSeq(plaintext, 1, 16),
         hash      |-> hash_api_key(plaintext)]

\* secrets.token_bytes(32): the n-th draw of the generator, a fresh value each time
RandomBytes(n) == [i \in 1..32 |-> (n * 67 + i * 31) % 256]

-----------------------------------------------------------------------------
(* backends.py: helpers *)

\* dt.isoformat() of the day-granular clock
IsoFormat(t) == "T" \o ToString(t)

_fmt_dt(dt) == IF dt = None THEN None ELSE Some(IsoFormat(dt[1]))

-----------------------------------------------------------------------------
(* backends.py: DbBackend *)

\* the expiry test made before the revocation test
BadRowStatus(revoked, expires, t) ==
    IF expires # None /\ expires[1] < t THEN "expired"
    ELSE IF revoked # None THEN "revoked"
    ELSE "active"

\* status of a row as list_keys derives it
RowStatus(revoked, expires, t) ==
    IF revoked # None THEN "revoked"
    ELSE IF expires # None /\ expires[1] < t THEN "expired"
    ELSE "active"

\* one row of the SELECT as the dict list_keys builds (api-key-manager)
RowDict(d, t) ==
    [id         |-> d.id,
     prefix     |-> d.key_prefix,
     label      |-> d.label,
     scopes     |-> d.scopes,
     rateLimit  |-> d.rate_limit,
     lastUsedAt |-> _fmt_dt(d.last_used_at),
     expiresAt  |-> _fmt_dt(d.expires_at),
     createdAt  |-> _fmt_dt(d.created_at),
     revokedAt  |-> _fmt_dt(d.revoked_at),
     status     |-> RowStatus(d.revoked_at, d.expires_at, t),
     user_id    |-> d.user_id,
     project_id |-> d.project_id]

\* the WHERE clause left out
BadWhereAll(d, include_revoked, t) == TRUE

\* WHERE revoked_at IS NULL, unless include_revoked
Where(d, include_revoked, t) == include_revoked \/ d.revoked_at = None

\* ORDER BY created_at ASC
BadOrdered(table, perm) ==
    \A i, j \in DOMAIN perm :
        i < j => table[perm[i]].created_at[1] <= table[perm[j]].created_at[1]

\* ORDER BY created_at DESC: rows of equal created_at come in any order
Ordered(table, perm) ==
    \A i, j \in DOMAIN perm :
        i < j => table[perm[i]].created_at[1] >= table[perm[j]].created_at[1]

\* the results list_keys can return: every ordering the query allows
DbListKeys(table, include_revoked, t) ==
    LET sel == { i \in DOMAIN table : Where(table[i], include_revoked, t) }
        n   == Cardinality(sel)
        perms == { p \in [1..n -> sel] :
                     /\ \A i, j \in 1..n : i # j => p[i] # p[j]
                     /\ Ordered(table, p) }
    IN  { [i \in 1..n |-> RowDict(table[p[i]], t)] : p \in perms }

\* the UPDATE without "AND revoked_at IS NULL"
BadDbRevokeKey(table, key_id, t) ==
    LET hit == { i \in DOMAIN table : table[i].id = key_id }
    IN  [rows |-> [i \in DOMAIN table |->
                     IF i \in hit THEN [table[i] EXCEPT !.revoked_at = Some(t)]
                     ELSE table[i]],
         result |-> Cardinality(hit) > 0]

\* return affected >= 0
BadDbRevokeKeyResult(table, key_id, t) ==
    LET hit == { i \in DOMAIN table :
                   table[i].id = key_id /\ table[i].revoked_at = None }
    IN  [rows |-> [i \in DOMAIN table |->
                     IF i \in hit THEN [table[i] EXCEPT !.revoked_at = Some(t)]
                     ELSE table[i]],
         result |-> Cardinality(hit) >= 0]

\* UPDATE api_keys SET revoked_at = now() WHERE id = %s AND revoked_at IS NULL
DbRevokeKey(table, key_id, t) ==
    LET hit == { i \in DOMAIN table :
                   table[i].id = key_id /\ table[i].revoked_at = None }
    IN  [rows |-> [i \in DOMAIN table |->
                     IF i \in hit THEN [table[i] EXCEPT !.revoked_at = Some(t)]
                     ELSE table[i]],
         result |-> Cardinality(hit) > 0]

\* expires_at of create_key: set only for a positive expires_in_days
\* an expiry for every number of days given, zero and negative ones too
BadExpiresAt(expires_in_days, t) ==
    IF expires_in_days # None
    THEN Some(t + expires_in_days[1])
    ELSE None

ExpiresAt(expires_in_days, t) ==
    IF expires_in_days # None /\ expires_in_days[1] # 0 /\ expires_in_days[1] > 0
    THEN Some(t + expires_in_days[1])
    ELSE None

\* INSERT INTO api_keys ... RETURNING id, created_at; the id is the table's
\* default, a value no earlier row has
DbCreateKey(table, p, random_bytes, t) ==
    LET key_data   == generate_api_key(p.environment, random_bytes)
        expires_at == ExpiresAt(p.expires_in_days, t)
        scopes     == IF p.scopes = None THEN << >> ELSE p.scopes[1]
        new_id     == Len(table) + 1
        row == [id           |-> new_id,
                user_id      |-> p.user_id,
                project_id   |-> p.project_id,
                key_hash     |-> key_data.hash,
                key_prefix   |-> key_data.prefix,
                label        |-> p.label,
                scopes       |-> scopes,
                rate_limit   |-> p.rate_limit,
                last_used_at |-> None,
                expires_at   |-> expires_at,
                created_at   |-> Some(t),
                revoked_at   |-> None]
    IN  [rows   |-> Append(table, row),
         result |-> [id        |-> new_id,
                     key       |-> key_data.plaintext,
                     prefix    |-> key_data.prefix,
                     label     |-> p.label,
                     scopes    |-> scopes,
                     rateLimit |-> p.rate_limit,
                     expiresAt |-> _fmt_dt(expires_at),
                     createdAt |-> _fmt_dt(Some(t))]]

\* get_key_info: the first dict of list_keys(include_revoked=True) with the id
\* looks the key up among the keys that are not revoked
BadGetKeyInfo(listing, key_id) ==
    LET hit == { i \in DOMAIN listing :
                   listing[i].id = key_id /\ listing[i].status # "revoked" }
    IN  IF hit = {} THEN None
        ELSE Some(listing[CHOOSE i \in hit : \A j \in hit : i <= j])

GetKeyInfo(listing, key_id) ==
    LET hit == { i \in DOMAIN listing : listing[i].id = key_id }
    IN  IF hit = {} THEN None
        ELSE Some(listing[CHOOSE i \in hit : \A j \in hit : i <= j])

-----------------------------------------------------------------------------
(* The key-management endpoint HttpBackend talks to (spec.md sections 4.3, 6) *)

\* what an HTTP call can end in: a response with a status code, or a timeout
Reply(status) == [timeout |-> FALSE, status |-> status]

TimedOut == [timeout |-> TRUE, status |-> 0]

\* owner the server infers from the X-API-Key credential
CredentialOwner == [user_id |-> "u1", project_id |-> "p1"]

\* GET /api/keys[?includeRevoked=true]: the possible outcomes [reply, keys]; a
\* KeyRecord on the wire carries no owner refs
ServerGet(table, include_revoked, t) ==
    { [reply |-> Reply(200),
       keys  |-> [i \in DOMAIN l |-> [f \in (DOMAIN l[i]) \ {"user_id", "project_id"}
                                        |-> l[i][f]]]] :
        l \in DbListKeys(table, include_revoked, t) }
    \cup { [reply |-> r, keys |-> << >>] : r \in {Reply(500), TimedOut} }

\* POST /api/keys: the possible outcomes [reply, rows, record]; a timeout may
\* hit before or after the server has stored the key
ServerPost(table, body, random_bytes, t) ==
    LET p == [user_id |-> CredentialOwner.user_id,
              project_id |-> CredentialOwner.project_id,
              label |-> IF "label" \in DOMAIN body THEN Some(body.label) ELSE None,
              environment |-> body.environment,
              expires_in_days |-> IF "expiresInDays" \in DOMAIN body
                                  THEN Some(body.expiresInDays) ELSE None,
              scopes |-> IF "scopes" \in DOMAIN body THEN Some(body.scopes) ELSE None,
              rate_limit |-> body.rateLimit]
        made == DbCreateKey(table, p, random_bytes, t)
    IN  { [reply |-> Reply(200), rows |-> made.rows, record |-> Some(made.result)],
          [reply |-> TimedOut, rows |-> made.rows, record |-> None],
          [reply |-> TimedOut, rows |-> table, record |-> None],
          [reply |-> Reply(500), rows |-> table, record |-> None] }

\* DELETE /api/keys/{id}: the possible outcomes [reply, rows]. Success signals
\* revocation and the endpoint is idempotent: deleting a revoked key succeeds
\* again and leaves its revokedAt alone; an id the server does not know is
\* answered 404 or, idempotently, 200.
ServerDelete(table, key_id, t) ==
    LET known   == { i \in DOMAIN table : table[i].id = key_id }
        revoked == [i \in DOMAIN table |->
                      IF i \in known /\ table[i].revoked_at = None
                      THEN [table[i] EXCEPT !.revoked_at = Some(t)]
                      ELSE table[i]]
    IN  (IF known # {}
         THEN { [reply |-> Reply(200), rows |-> revoked],
                [reply |-> TimedOut, rows |-> revoked] }
         ELSE { [reply |-> Reply(200), rows |-> table],
                [reply |-> Reply(404), rows |-> table] })
        \cup { [reply |-> Reply(500), rows |-> table],
               [reply |-> TimedOut, rows |-> table] }

-----------------------------------------------------------------------------
(* backends.py: HttpBackend *)

\* only the timeout raises: no r.raise_for_status()
BadRaises(reply) == reply.timeout

\* r.raise_for_status(), which raises unless the response is a 2xx one, or
\* the timeout of httpx.AsyncClient(timeout=15.0)
Raises(reply) == reply.timeout \/ ~(reply.status >= 200 /\ reply.status < 300)

\* an unexpected failure: no response within the timeout, or a 5xx response
TransportFailure(reply) == reply.timeout \/ reply.status >= 500

\* body of the POST create_key sends
HttpBody(p) ==
    LET base == [environment |-> p.environment, rateLimit |-> p.rate_limit]
        b1 == IF p.label # None /\ p.label[1] # ""
              THEN base @@ [label |-> p.label[1]] ELSE base
        b2 == IF p.expires_in_days # None /\ p.expires_in_days[1] > 0
              THEN b1 @@ [expiresInDays |-> p.expires_in_days[1]] ELSE b1
    IN  IF p.scopes # None /\ p.scopes[1] # << >>
        THEN b2 @@ [scopes |-> p.scopes[1]] ELSE b2

\* the exception a call ends in, if any: httpx's own, of the timeout or of
\* the response that raise_for_status rejected
HttpCause(reply) == IF Raises(reply) THEN Some(reply) ELSE None

\* list_keys: [raised, cause, result] for a server outcome
HttpListKeys(out) ==
    [raised |-> Raises(out.reply),
     cause  |-> HttpCause(out.reply),
     result |-> IF Raises(out.reply) THEN << >> ELSE out.keys]

\* create_key: [raised, cause, result] for a server outcome
HttpCreateKey(out) ==
    [raised |-> Raises(out.reply),
     cause  |-> HttpCause(out.reply),
     result |-> IF Raises(out.reply) THEN None ELSE out.record]

\* revoke_key: [raised, cause, result] for a server outcome: True unless it
\* raises
HttpRevokeKey(out) ==
    [raised |-> Raises(out.reply),
     cause  |-> HttpCause(out.reply),
     result |-> ~Raises(out.reply)]

-----------------------------------------------------------------------------
(* Direct calls on a DbBackend: any operation, any argument, in any order  *)

\* arguments of create_key the direct calls draw from
CreateInputs ==
    { [user_id |-> "u1", project_id |-> "p1", label |-> Some("Prod"),
       environment |-> "live", expires_in_days |-> None, scopes |-> None,
       rate_limit |-> 60],
      [user_id |-> "u2", project_id |-> "p2", label |-> Some("CI"),
       environment |-> "test", expires_in_days |-> Some(1),
       scopes |-> Some(<<"read">>), rate_limit |-> 120] }

\* the ids a direct call is made with: every id in the table and one that is not
KeyIds == 1..(Len(rows) + 1)

\* ret: the call, its arguments, the clock when it ran, and what it returned
\* (ok: revoke_key's boolean; listing: list_keys' list; info: get_key_info's
\* dict or None; created: create_key's dict); transport: the call got no
\* answer from the endpoint, or a 5xx one; args, id: the arguments of a
\* find_or_create call and the id it returned; cause: the exception an
\* HttpBackend call raised
NoCall ==
    [op |-> "none", key_id |-> 0, include |-> FALSE, at |-> 0,
     raised |-> FALSE, transport |-> FALSE, ok |-> FALSE, listing |-> << >>,
     info |-> None, created |-> None, args |-> << >>, id |-> None,
     cause |-> None, ran_on |-> "none", opened |-> FALSE]

\* DbBackend.__init__: self._conn = None. set: the handle is set; closed:
\* what its closed attribute shows; alive: the server end is still there;
\* opens: how many connections have been opened
NoConn == [set |-> FALSE, closed |-> FALSE, alive |-> FALSE, opens |-> 0]

\* no user, project or membership row yet, no connection
IdentityIdle ==
    /\ users = {}
    /\ projects = {}
    /\ memberships = {}
    /\ conn = NoConn

SessionIdle(b) ==
    /\ app = "manager"
    /\ backend = b
    /\ connected = FALSE
    /\ show_revoked = FALSE
    /\ keys = << >>
    /\ screens = << >>
    /\ workers = {}

DbInit ==
    /\ rows = << >>
    /\ now = 0
    /\ ret = NoCall
    /\ SessionIdle("DB")
    /\ IdentityIdle

DbCreate ==
    /\ Len(rows) < MaxRows
    /\ \E p \in CreateInputs :
         LET r == DbCreateKey(rows, p, RandomBytes(Len(rows)), now)
         IN  /\ rows' = r.rows
             /\ ret' = [NoCall EXCEPT !.op = "create_key", !.at = now,
                                      !.created = Some(r.result)]
    /\ UNCHANGED <<now, sessionVars, identityVars, conn>>

DbRevoke ==
    /\ \E key_id \in KeyIds :
         LET r == DbRevokeKey(rows, key_id, now)
         IN  /\ rows' = r.rows
             /\ ret' = [NoCall EXCEPT !.op = "revoke_key", !.key_id = key_id,
                                      !.at = now, !.ok = r.result]
    /\ UNCHANGED <<now, sessionVars, identityVars, conn>>

DbList ==
    /\ \E include_revoked \in BOOLEAN :
         \E listing \in DbListKeys(rows, include_revoked, now) :
             ret' = [NoCall EXCEPT !.op = "list_keys", !.include = include_revoked,
                                  !.at = now, !.listing = listing]
    /\ UNCHANGED <<rows, now, sessionVars, identityVars, conn>>

DbGet ==
    /\ \E key_id \in KeyIds :
         \E listing \in DbListKeys(rows, TRUE, now) :
             ret' = [NoCall EXCEPT !.op = "get_key_info", !.key_id = key_id,
                                  !.at = now, !.info = GetKeyInfo(listing, key_id)]
    /\ UNCHANGED <<rows, now, sessionVars, identityVars, conn>>

Tick ==
    /\ now < MaxTime
    /\ now' = now + 1
    /\ UNCHANGED <<rows, ret, sessionVars, identityVars, conn>>

DbNext == DbCreate \/ DbRevoke \/ DbList \/ DbGet \/ Tick

SpecDb == DbInit /\ [][DbNext]_vars

-----------------------------------------------------------------------------
(* Direct calls on an HttpBackend, the endpoint answering in every way it can *)

HttpInit ==
    /\ rows = << >>
    /\ now = 0
    /\ ret = NoCall
    /\ SessionIdle("HTTP")
    /\ IdentityIdle

HttpCreate ==
    /\ Len(rows) < MaxRows
    /\ \E p \in CreateInputs :
         \E out \in ServerPost(rows, HttpBody(p), RandomBytes(Len(rows)), now) :
             LET r == HttpCreateKey(out)
             IN  /\ rows' = out.rows
                 /\ ret' = [NoCall EXCEPT !.op = "create_key", !.at = now,
                                          !.raised = r.raised,
                                          !.transport = TransportFailure(out.reply),
                                          !.cause = r.cause,
                                          !.created = r.result]
    /\ UNCHANGED <<now, sessionVars, identityVars, conn>>

HttpRevoke ==
    /\ \E key_id \in KeyIds :
         \E out \in ServerDelete(rows, key_id, now) :
             LET r == HttpRevokeKey(out)
             IN  /\ rows' = out.rows
                 /\ ret' = [NoCall EXCEPT !.op = "revoke_key", !.key_id = key_id,
                                          !.at = now, !.raised = r.raised,
                                          !.transport = TransportFailure(out.reply),
                                          !.cause = r.cause,
                                          !.ok = r.result]
    /\ UNCHANGED <<now, sessionVars, identityVars, conn>>

HttpList ==
    /\ \E include_revoked \in BOOLEAN :
         \E out \in ServerGet(rows, include_revoked, now) :
             LET r == HttpListKeys(out)
             IN  ret' = [NoCall EXCEPT !.op = "list_keys", !.include = include_revoked,
                                       !.at = now, !.raised = r.raised,
                                       !.transport = TransportFailure(out.reply),
                                       !.cause = r.cause,
                                       !.listing = r.result]
    /\ UNCHANGED <<rows, now, sessionVars, identityVars, conn>>

HttpNext == HttpCreate \/ HttpRevoke \/ HttpList \/ Tick

SpecHttp == HttpInit /\ [][HttpNext]_vars

-----------------------------------------------------------------------------
(* app.py: one operator session of either tool                              *)

Mutations == {"create", "revoke", "rotate"}

\* worker group of @work(exclusive=True, group=...): api-key-manager names
\* "refresh" and "mutate"; api-keys-tui names none, so all share "default"
Group(kind) ==
    IF app = "tui" THEN "default"
    ELSE IF kind = "refresh" THEN "refresh" ELSE "mutate"

\* response slot of a worker's outstanding backend call; error: the kind of
\* exception the call raised
NoResp ==
    [state |-> "none", ok |-> FALSE, listing |-> << >>, info |-> None,
     created |-> None, error |-> "none"]

\* the call raised: the exception is psycopg2's or httpx's own, the backends
\* raise no other
Raised == [NoResp EXCEPT !.state = "raised", !.error = "backend"]

\* what is remembered of a mutation: the store when it started, the derived
\* status its key had in it, what its revoke_key returned, whether its start
\* cancelled another mutation in flight, and how many revoke_key and
\* create_key calls it has made, and whether a refresh was issued while it
\* was in flight
NoTrack ==
    [key_id |-> 0, status |-> "none", revoke_ret |-> "none", superseded |-> FALSE,
     before |-> << >>, revokes |-> 0, creates |-> 0, refresh_issued |-> FALSE]

\* the backend call a worker makes is counted
Count(track, call) ==
    [track EXCEPT !.revokes = @ + (IF call = "revoke_key" THEN 1 ELSE 0),
                  !.creates = @ + (IF call = "create_key" THEN 1 ELSE 0)]

\* a worker suspended at the backend call pc
Worker(id, kind, pc, key, params, include, track) ==
    [id |-> id, kind |-> kind, pc |-> pc, key |-> key, params |-> params,
     include |-> include, resp |-> NoResp, track |-> track, via |-> backend]

\* psycopg2 calls block the event loop: while a DbBackend worker runs, no
\* handler of the app does
Busy == \E w \in workers : w.via = "DB"

\* dict.get(field, default)
DictGet(d, field, default) == IF field \in DOMAIN d THEN d[field] ELSE default

\* the dicts the session's list_keys returns: api-keys-tui's DbBackend selects
\* no owner columns
SessionDicts(listing) ==
    IF app = "tui"
    THEN [i \in DOMAIN listing |->
            [f \in (DOMAIN listing[i]) \ {"user_id", "project_id"} |-> listing[i][f]]]
    ELSE listing

\* derived status of the stored key with this id, now
TrueStatus(key_id) ==
    IF \E i \in DOMAIN rows : rows[i].id = key_id
    THEN LET i == CHOOSE i \in DOMAIN rows : rows[i].id = key_id
         IN  RowStatus(rows[i].revoked_at, rows[i].expires_at, now)
    ELSE "missing"

\* exclusive=True without the cancellation
BadCancelGroup(ws, group) == {}

\* exclusive=True: the workers of the group that a new worker cancels
CancelGroup(ws, group) == { w \in ws : Group(w.kind) = group }

\* the mutations in flight see a refresh issued
RefreshIssued(ws) ==
    { IF w.kind \in Mutations THEN [w EXCEPT !.track.refresh_issued = TRUE] ELSE w :
      w \in ws }

\* run_worker: cancel the group, start the worker, which runs to its first
\* backend call
StartWorker(kind, pc, key, params, include, key_id) ==
    LET cancelled == CancelGroup(workers, Group(kind))
        left      == workers \ cancelled
        id        == IF kind = "refresh" THEN 0
                     ELSE CHOOSE n \in 1..(Cardinality(left) + 1) :
                              /\ \A w \in left : w.id # n
                              /\ \A m \in 1..(n - 1) : \E w \in left : w.id = m
        track     == IF kind = "refresh" THEN NoTrack
                     ELSE Count([NoTrack EXCEPT
                             !.key_id = key_id,
                             !.status = IF key_id = 0 THEN "none"
                                        ELSE TrueStatus(key_id),
                             !.superseded = \E c \in cancelled :
                                               c.kind \in Mutations,
                             !.before = rows], pc)
    IN  workers' = (IF kind = "refresh" THEN RefreshIssued(left) ELSE left)
                   \cup {Worker(id, kind, pc, key, params, include, track)}

\* rows a session may still add: one per live worker that can reach create_key
MayCreate == Cardinality({ w \in workers : w.kind \in {"create", "rotate"} })

\* values the create form is submitted with
FormInputs ==
    { [label |-> Some("Prod"), environment |-> "live", expires_in_days |-> None,
       scopes |-> None, rate_limit |-> 60] }

\* a store left by earlier sessions: one key of the test environment that
\* expires after a day
InitialRows ==
    DbCreateKey(<< >>,
                [user_id |-> "u1", project_id |-> "p1", label |-> Some("CI"),
                 environment |-> "test", expires_in_days |-> Some(1),
                 scopes |-> None, rate_limit |-> 120],
                RandomBytes(0), 0).rows

\* another such store: one unlabelled key of the live environment that never
\* expires
InitialRowsLive ==
    DbCreateKey(<< >>,
                [user_id |-> "u1", project_id |-> "p1", label |-> None,
                 environment |-> "live", expires_in_days |-> None,
                 scopes |-> None, rate_limit |-> 60],
                RandomBytes(0), 0).rows

\* on_mount, _try_auto_connect: backend from the environment, first refresh
Init ==
    /\ rows \in {InitialRows, InitialRowsLive}
    /\ now = 1
    /\ ret = NoCall
    /\ app \in {"manager", "tui"}
    /\ backend \in {"HTTP", "DB"}
    /\ connected = TRUE
    /\ show_revoked = FALSE
    /\ keys = << >>
    /\ screens = << >>
    /\ workers = { Worker(0, "refresh", "list_keys", None, None, FALSE, NoTrack) }
    /\ users = { [id |-> "u1", email |-> "ops@example.com", name |-> "ops"] }
    /\ projects = { [id |-> "p1", owner_id |-> "u1", name |-> "default", slug |-> "default"] }
    /\ memberships = { [user_id |-> "u1", project_id |-> "p1", role |-> "owner"] }
    /\ conn = NoConn

\* action_refresh, from the Refresh button
action_refresh ==
    /\ screens = << >>
    /\ ~Busy
    /\ StartWorker("refresh", "list_keys", None, None, show_revoked, 0)
    /\ UNCHANGED <<rows, now, ret, identityVars, conn, app, backend, connected, show_revoked, keys, screens>>

\* _do_auto_refresh, the set_interval timer of api-key-manager
_do_auto_refresh ==
    /\ app = "manager"
    /\ connected
    /\ ~Busy
    /\ StartWorker("refresh", "list_keys", None, None, show_revoked, 0)
    /\ UNCHANGED <<rows, now, ret, identityVars, conn, app, backend, connected, show_revoked, keys, screens>>

\* action_toggle_revoked / on_toggle_revoked: flip the flag, then refresh
action_toggle_revoked ==
    /\ screens = << >>
    /\ ~Busy
    /\ show_revoked' = ~show_revoked
    /\ StartWorker("refresh", "list_keys", None, None, ~show_revoked, 0)
    /\ UNCHANGED <<rows, now, ret, identityVars, conn, app, backend, connected, keys, screens>>

\* action_rotate: the selected key of the cached list must show as active.
\* api-key-manager asks for confirmation; api-keys-tui is itself the worker.
action_rotate ==
    /\ screens = << >>
    /\ ~Busy
    /\ Len(rows) + MayCreate < MaxRows
    /\ \E idx \in DOMAIN keys :
         LET key == keys[idx]
         IN  /\ key.status = "active"
             /\ IF app = "manager"
                THEN /\ screens' = <<[screen |-> "confirm_rotate", key |-> Some(key)]>>
                     /\ UNCHANGED workers
                ELSE /\ StartWorker("rotate", "revoke_key", Some(key), None, FALSE,
                                    key.id)
                     /\ UNCHANGED screens
    /\ UNCHANGED <<rows, now, ret, identityVars, conn, app, backend, connected, show_revoked, keys>>

\* action_revoke: as action_rotate
action_revoke ==
    /\ screens = << >>
    /\ ~Busy
    /\ \E idx \in DOMAIN keys :
         LET key == keys[idx]
         IN  /\ key.status = "active"
             /\ IF app = "manager"
                THEN /\ screens' = <<[screen |-> "confirm_revoke", key |-> Some(key)]>>
                     /\ UNCHANGED workers
                ELSE /\ StartWorker("revoke", "revoke_key", Some(key), None, FALSE,
                                    key.id)
                     /\ UNCHANGED screens
    /\ UNCHANGED <<rows, now, ret, identityVars, conn, app, backend, connected, show_revoked, keys>>

\* api-keys-tui: no key is selected, or the selected key does not show as
\* active; the call has still started an exclusive worker, which returns at
\* once
action_mutate_rejected ==
    /\ app = "tui"
    /\ screens = << >>
    /\ ~Busy
    /\ \/ keys = << >>
       \/ \E idx \in DOMAIN keys : keys[idx].status # "active"
    /\ workers' = workers \ CancelGroup(workers, "default")
    /\ UNCHANGED <<rows, now, ret, identityVars, conn, app, backend, connected, show_revoked, keys, screens>>

\* action_create: open the form
action_create ==
    /\ screens = << >>
    /\ ~Busy
    /\ Len(rows) + MayCreate < MaxRows
    /\ screens' = <<[screen |-> "create_form", key |-> None]>>
    /\ UNCHANGED <<rows, now, ret, identityVars, conn, app, backend, connected, show_revoked, keys,
                   workers>>

\* first step of _do_create. api-key-manager with a DbBackend calls
\* find_or_create_user(username) without the email argument: a TypeError,
\* caught as "Create failed" before any backend call
_do_create(p) ==
    IF app = "manager" /\ backend = "DB"
    THEN workers' = workers \ CancelGroup(workers, Group("create"))
    ELSE StartWorker("create", "create_key", None,
                     Some([user_id |-> IF backend = "DB" THEN "u1" ELSE "",
                           project_id |-> IF backend = "DB" THEN "p1" ELSE ""]
                          @@ p), FALSE, 0)

\* the modal screen on top is dismissed by the operator
Dismiss ==
    /\ screens # << >>
    /\ ~Busy
    /\ LET top  == screens[Len(screens)]
           rest == SubSeq(screens, 1, Len(screens) - 1)
       IN  /\ screens' = rest
           /\ \/ \* Cancel / No
                 /\ top.screen # "new_key"
                 /\ UNCHANGED workers
              \/ \* ConfirmScreen: Rotate
                 /\ top.screen = "confirm_rotate"
                 /\ StartWorker("rotate", "revoke_key", top.key, None, FALSE,
                                top.key[1].id)
              \/ \* ConfirmScreen: Revoke
                 /\ top.screen = "confirm_revoke"
                 /\ StartWorker("revoke", "revoke_key", top.key, None, FALSE,
                                top.key[1].id)
              \/ \* CreateKeyScreen: Create
                 /\ top.screen = "create_form"
                 /\ \E p \in FormInputs : _do_create(p)
              \/ \* NewKeyResultScreen acknowledged: on_ack refreshes
                 /\ top.screen = "new_key"
                 /\ StartWorker("refresh", "list_keys", None, None, show_revoked, 0)
    /\ UNCHANGED <<rows, now, ret, identityVars, conn, app, backend, connected, show_revoked, keys>>

\* the outcomes [rows, resp] of the backend call worker w is suspended at
Outcomes(w) ==
    IF w.via = "HTTP"
    THEN CASE w.pc \in {"list_keys", "list_keys_again"} ->
                { [rows |-> rows,
                   resp |-> LET r == HttpListKeys(o)
                            IN  IF r.raised THEN Raised
                                ELSE [NoResp EXCEPT !.state = "ok",
                                                    !.listing = r.result]] :
                  o \in ServerGet(rows, w.include, now) }
           [] w.pc = "revoke_key" ->
                { [rows |-> o.rows,
                   resp |-> LET r == HttpRevokeKey(o)
                            IN  IF r.raised THEN Raised
                                ELSE [NoResp EXCEPT !.state = "ok", !.ok = r.result]] :
                  o \in ServerDelete(rows, w.key[1].id, now) }
           [] w.pc = "create_key" ->
                { [rows |-> o.rows,
                   resp |-> LET r == HttpCreateKey(o)
                            IN  IF r.raised THEN Raised
                                ELSE [NoResp EXCEPT !.state = "ok",
                                                    !.created = r.result]] :
                  o \in ServerPost(rows, HttpBody(w.params[1]),
                                   RandomBytes(Len(rows)), now) }
    ELSE {[rows |-> rows, resp |-> Raised]} \cup
         CASE w.pc \in {"list_keys", "list_keys_again"} ->
                { [rows |-> rows,
                   resp |-> [NoResp EXCEPT !.state = "ok",
                                           !.listing = SessionDicts(l)]] :
                  l \in DbListKeys(rows, w.include, now) }
           [] w.pc = "get_key_info" ->
                { [rows |-> rows,
                   resp |-> [NoResp EXCEPT
                               !.state = "ok",
                               !.info = GetKeyInfo(SessionDicts(l), w.key[1].id)]] :
                  l \in DbListKeys(rows, TRUE, now) }
           [] w.pc = "revoke_key" ->
                LET r == DbRevokeKey(rows, w.key[1].id, now)
                IN  { [rows |-> r.rows,
                       resp |-> [NoResp EXCEPT !.state = "ok", !.ok = r.result]] }
           [] w.pc = "create_key" ->
                LET r == DbCreateKey(rows, w.params[1], RandomBytes(Len(rows)), now)
                IN  { [rows |-> r.rows,
                       resp |-> [NoResp EXCEPT !.state = "ok",
                                               !.created = Some(r.result)]] }

\* the backend executes the outstanding call of a worker and answers
Exec ==
    \E w \in workers :
        /\ w.resp.state = "none"
        /\ \E out \in Outcomes(w) :
             /\ rows' = out.rows
             /\ workers' = (workers \ {w}) \cup {[w EXCEPT !.resp = out.resp]}
        /\ UNCHANGED <<now, ret, identityVars, conn, app, backend, connected, show_revoked, keys, screens>>

\* the worker makes its call again instead of ending
BadFinish(w) ==
    workers' = (workers \ {w}) \cup
               {[w EXCEPT !.resp = NoResp, !.track = Count(w.track, w.pc)]}

\* the worker ends
Finish(w) == workers' = workers \ {w}

\* the worker goes on to its next backend call
Continue(w, pc, params, include, revoke_ret) ==
    workers' = (workers \ {w}) \cup
               {[w EXCEPT !.pc = pc, !.params = params, !.include = include,
                          !.resp = NoResp, !.via = backend,
                          !.track = Count([w.track EXCEPT !.revoke_ret = revoke_ret],
                                          pc)]}

\* action_refresh after its list_keys: the cache is replaced, or the failure
\* is reported (api-key-manager then sets connected to False)
\* a refresh that succeeds marks the session connected again
Bad_action_refresh_resume(w) ==
    /\ Finish(w)
    /\ IF w.resp.state = "ok"
       THEN keys' = w.resp.listing /\ connected' = TRUE
       ELSE /\ UNCHANGED keys
            /\ connected' = IF app = "manager" THEN FALSE ELSE connected
    /\ UNCHANGED screens

action_refresh_resume(w) ==
    /\ Finish(w)
    /\ IF w.resp.state = "ok"
       THEN keys' = w.resp.listing /\ UNCHANGED connected
       ELSE /\ UNCHANGED keys
            /\ connected' = IF app = "manager" THEN FALSE ELSE connected
    /\ UNCHANGED screens

\* _do_revoke / action_revoke after a backend call
_do_revoke(w) ==
    /\ UNCHANGED <<connected, screens>>
    /\ IF w.resp.state = "raised"
       THEN Finish(w) /\ UNCHANGED keys
       ELSE CASE w.pc = "revoke_key" ->
                   /\ UNCHANGED keys
                   /\ IF w.resp.ok
                      THEN Continue(w, IF app = "tui" THEN "list_keys_again"
                                       ELSE "list_keys",
                                    None, show_revoked, "true")
                      ELSE Finish(w)
              [] w.pc = "list_keys_again" ->
                   /\ UNCHANGED keys
                   /\ Continue(w, "list_keys", None, show_revoked, w.track.revoke_ret)
              [] w.pc = "list_keys" ->
                   /\ keys' = w.resp.listing
                   /\ Finish(w)

\* env = "test" if key.get("prefix", "").startswith("mbmcp_test") else "live"
RotateEnv(key) ==
    IF Len(key.prefix) >= 10
       /\ SubSeq(key.prefix, 1, 10) = <<"m","b","m","c","p","_","t","e","s","t">>
    THEN "test" ELSE "live"

\* create_params built without looking at the prefix
BadRotateParams(key) ==
    [label |-> key.label, environment |-> "live",
     rate_limit |-> DictGet(key, "rateLimit", 60),
     expires_in_days |-> None, scopes |-> None]

\* create_params of a rotation, before the owner refs are added
RotateParams(key) ==
    [label |-> key.label, environment |-> RotateEnv(key),
     rate_limit |-> DictGet(key, "rateLimit", 60),
     expires_in_days |-> None, scopes |-> None]

\* _do_rotate / action_rotate after revoke_key has returned: the value it
\* returned is not looked at
RotateAfterRevoke(w) ==
    LET revoke_ret == IF w.resp.ok THEN "true" ELSE "false"
    IN  IF backend = "DB"
        THEN Continue(w, "get_key_info", Some(RotateParams(w.key[1])), FALSE,
                      revoke_ret)
        ELSE Continue(w, "create_key",
                      Some([user_id |-> "", project_id |-> ""]
                           @@ RotateParams(w.key[1])),
                      FALSE, revoke_ret)

\* _do_rotate / action_rotate after a backend call
_do_rotate(w) ==
    /\ UNCHANGED <<connected, keys>>
    /\ IF w.resp.state = "raised"
       THEN Finish(w) /\ UNCHANGED screens
       ELSE CASE w.pc = "revoke_key" ->
                   /\ UNCHANGED screens
                   /\ RotateAfterRevoke(w)
              [] w.pc = "get_key_info" ->
                   /\ UNCHANGED screens
                   /\ IF w.resp.info # None
                      THEN Continue(w, "create_key",
                                    Some([user_id |-> DictGet(w.resp.info[1], "user_id", ""),
                                          project_id |-> DictGet(w.resp.info[1],
                                                                 "project_id", "")]
                                         @@ w.params[1]),
                                    FALSE, w.track.revoke_ret)
                      ELSE Finish(w)
              [] w.pc = "create_key" ->
                   /\ screens' = Append(screens, [screen |-> "new_key",
                                                  key |-> w.resp.created])
                   /\ Finish(w)

\* _do_create after create_key
_do_create_resume(w) ==
    /\ UNCHANGED <<connected, keys>>
    /\ IF w.resp.state = "raised"
       THEN Finish(w) /\ UNCHANGED screens
       ELSE /\ screens' = Append(screens, [screen |-> "new_key",
                                           key |-> w.resp.created])
            /\ Finish(w)

\* the event loop resumes a worker whose backend call has returned or raised
Resume ==
    \E w \in workers :
        /\ w.resp.state # "none"
        /\ CASE w.kind = "refresh" -> action_refresh_resume(w)
             [] w.kind = "revoke"  -> _do_revoke(w)
             [] w.kind = "rotate"  -> _do_rotate(w)
             [] w.kind = "create"  -> _do_create_resume(w)
        /\ UNCHANGED <<rows, now, ret, identityVars, conn, app, backend, show_revoked>>

\* a day passes
Clock ==
    /\ now < MaxTime
    /\ now' = now + 1
    /\ UNCHANGED <<rows, ret, sessionVars, identityVars, conn>>

Next ==
    \/ action_refresh
    \/ _do_auto_refresh
    \/ action_toggle_revoked
    \/ action_rotate
    \/ action_revoke
    \/ action_mutate_rejected
    \/ action_create
    \/ Dismiss
    \/ Exec
    \/ Resume
    \/ Clock

Spec == Init /\ [][Next]_vars

-----------------------------------------------------------------------------
(* Properties of the direct-store backend (SpecDb) *)

IsList == ret.op = "list_keys"

Listing == ret.listing

RowsWithId(key_id) == { i \in DOMAIN rows : rows[i].id = key_id }

\* the step is a revoke_key(key_id) call that returned or changed something
RevokeStep(key_id) ==
    /\ ret'.op = "revoke_key"
    /\ ret'.key_id = key_id
    /\ (ret' # ret \/ rows' # rows)

\* C5: DbBackend.revoke_key is idempotent: a call on an id whose row has
\* revoked_at unset returns true and sets revoked_at to the time of the call;
\* a call on an already revoked (or missing) id returns false and leaves every
\* row, so also the revoked_at the first call set, as it was.
C5_RevokeIdempotent ==
    [][\A key_id \in 1..(Len(rows) + 1) :
         RevokeStep(key_id) =>
            IF \E i \in RowsWithId(key_id) : rows[i].revoked_at = None
            THEN /\ ret'.ok
                 /\ \A i \in RowsWithId(key_id) : rows'[i].revoked_at = Some(now)
            ELSE /\ ~ret'.ok
                 /\ rows' = rows]_vars

\* a second revoke_key on a key revoked at an earlier time has returned false
C5_Witness ==
    /\ ret.op = "revoke_key"
    /\ ~ret.ok
    /\ \E i \in RowsWithId(ret.key_id) :
         rows[i].revoked_at # None /\ rows[i].revoked_at[1] < ret.at

\* C7: the status list_keys reports is a function of (revoked_at, expires_at,
\* now) alone: revoked whenever revoked_at is set, whatever expires_at is;
\* expired only when revoked_at is unset and expires_at is set and earlier than
\* now; active in every other case.
C7_StatusDerivation ==
    IsList =>
        \A k \in DOMAIN Listing :
            \A i \in RowsWithId(Listing[k].id) :
                LET revoked == rows[i].revoked_at
                    expires == rows[i].expires_at
                    status  == Listing[k].status
                IN  /\ status \in {"active", "revoked", "expired"}
                    /\ (status = "revoked") <=> (revoked # None)
                    /\ (status = "expired") <=>
                          (revoked = None /\ expires # None /\ expires[1] < ret.at)
                    /\ (status = "active") <=>
                          (revoked = None /\ (expires = None \/ expires[1] >= ret.at))

\* a listing holds a revoked key whose expiry has also passed, an expired key
\* that is not revoked, and a key active at its very expiry time is possible
C7_Witness ==
    /\ IsList
    /\ \E k \in DOMAIN Listing :
         /\ Listing[k].status = "revoked"
         /\ \E i \in RowsWithId(Listing[k].id) :
              rows[i].expires_at # None /\ rows[i].expires_at[1] < ret.at

\* fields of a row that no operation may change
Immutable(r) ==
    <<r.id, r.user_id, r.project_id, r.key_hash, r.key_prefix, r.label, r.scopes,
      r.rate_limit, r.created_at, r.expires_at>>

\* C8: no operation deletes a row, ids are pairwise distinct, every field of a
\* row other than revoked_at keeps the value it was created with, and
\* revoked_at changes at most once, from unset to set.
C8_RecordImmutability ==
    /\ [](\A i, j \in DOMAIN rows : rows[i].id = rows[j].id => i = j)
    /\ [][/\ Len(rows') >= Len(rows)
          /\ \A i \in DOMAIN rows :
               /\ Immutable(rows'[i]) = Immutable(rows[i])
               /\ rows[i].revoked_at # None => rows'[i].revoked_at = rows[i].revoked_at]_vars

\* two rows exist, one revoked earlier, and revoke_key was called on it again
C8_Witness ==
    /\ Len(rows) = 2
    /\ ret.op = "revoke_key"
    /\ \E i \in RowsWithId(ret.key_id) :
         rows[i].revoked_at # None /\ rows[i].revoked_at[1] < ret.at

\* C9: a key with no expiry that was never revoked is listed, in both modes,
\* with status active and revokedAt unset; a key that revoke_key has revoked
\* is absent from every list_keys(include_revoked=False) and present, once,
\* with status revoked in every list_keys(include_revoked=True).
C9_RevocationVisibility ==
    IsList =>
        \A i \in DOMAIN rows :
            LET hits == { k \in DOMAIN Listing : Listing[k].id = rows[i].id }
            IN  /\ (rows[i].revoked_at = None /\ rows[i].expires_at = None) =>
                     /\ Cardinality(hits) = 1
                     /\ \A k \in hits : /\ Listing[k].status = "active"
                                        /\ Listing[k].revokedAt = None
                /\ (rows[i].revoked_at # None /\ ~ret.include) => hits = {}
                /\ (rows[i].revoked_at # None /\ ret.include) =>
                     /\ Cardinality(hits) = 1
                     /\ \A k \in hits : /\ Listing[k].status = "revoked"
                                        /\ Listing[k].revokedAt # None

\* list_keys(include_revoked=False) ran, later than the revocation of a key
C9_Witness ==
    /\ IsList
    /\ ~ret.include
    /\ \E i \in DOMAIN rows :
         rows[i].revoked_at # None /\ rows[i].revoked_at[1] < ret.at
    /\ Len(Listing) = 1

\* C10: list_keys(include_revoked=False) returns exactly the rows whose
\* revoked_at is unset, an expired one among them with status expired;
\* list_keys(include_revoked=True) returns every row; each row once, ordered by
\* created_at, most recent first.
C10_ListFilterAndOrder ==
    IsList =>
        /\ { Listing[k].id : k \in DOMAIN Listing } =
              { rows[i].id : i \in { j \in DOMAIN rows :
                                       ret.include \/ rows[j].revoked_at = None } }
        /\ \A k, l \in DOMAIN Listing : Listing[k].id = Listing[l].id => k = l
        /\ \A k, l \in DOMAIN Listing :
              k < l => \A i \in RowsWithId(Listing[k].id), j \in RowsWithId(Listing[l].id) :
                          rows[i].created_at[1] >= rows[j].created_at[1]
        /\ \A k \in DOMAIN Listing :
              \A i \in RowsWithId(Listing[k].id) :
                  (rows[i].revoked_at = None /\ rows[i].expires_at # None
                     /\ rows[i].expires_at[1] < ret.at) => Listing[k].status = "expired"

\* list_keys(include_revoked=False) returned two keys created at different
\* times, the older one expired and not revoked
C10_Witness ==
    /\ IsList
    /\ ~ret.include
    /\ Len(Listing) = 2
    /\ Listing[2].status = "expired"
    /\ Listing[1].createdAt # Listing[2].createdAt

-----------------------------------------------------------------------------
(* Properties of the remote-API backend (SpecHttp) *)

\* C6: HttpBackend.revoke_key returns true only when the call has applied a
\* revocation (the key existed with revokedAt unset and has it set afterwards),
\* and on a key that does not exist or is already revoked it returns false
\* without raising, unless the transport failed; so two successive calls on an
\* id never both return true.
C6_RemoteRevokeResult ==
    [][\A key_id \in 1..(Len(rows) + 1) :
         RevokeStep(key_id) =>
            LET live == { i \in RowsWithId(key_id) : rows[i].revoked_at = None }
            IN  /\ (~ret'.raised /\ ret'.ok) =>
                     /\ live # {}
                     /\ \A i \in live : rows'[i].revoked_at # None
                /\ (live = {} /\ ~ret'.transport) =>
                     (~ret'.raised /\ ~ret'.ok)]_vars

\* a timeout or a response outside 2xx
Failure(reply) == reply.timeout \/ reply.status \notin 200..299

\* the call result r of an endpoint reply: a failure raises with the reply
\* as its cause and returns nothing; no other reply raises
Surfaces(r, reply, nothing) ==
    /\ Failure(reply) <=> r.raised
    /\ r.raised => (r.cause = Some(reply) /\ r.result = nothing)
    /\ ~r.raised => r.cause = None

\* C22: list_keys, create_key and revoke_key of the HttpBackend end in an
\* error carrying the cause for every timeout and every non-2xx response, and
\* never return a list, a record or a boolean for one.
C22_FailureSurfacing ==
    /\ \A include_revoked \in BOOLEAN :
         \A out \in ServerGet(rows, include_revoked, now) :
            Surfaces(HttpListKeys(out), out.reply, << >>)
    /\ \A p \in CreateInputs :
         \A out \in ServerPost(rows, HttpBody(p), RandomBytes(Len(rows)), now) :
            Surfaces(HttpCreateKey(out), out.reply, None)
    /\ \A key_id \in KeyIds :
         \A out \in ServerDelete(rows, key_id, now) :
            Surfaces(HttpRevokeKey(out), out.reply, FALSE)
    /\ ret.raised <=> ret.cause # None
    /\ ret.raised => (ret.listing = << >> /\ ret.created = None /\ ~ret.ok)

\* revoke_key of an id the endpoint does not know has raised on the 404
C22_Witness ==
    /\ ret.op = "revoke_key"
    /\ ret.raised
    /\ ret.cause = Some(Reply(404))

-----------------------------------------------------------------------------
(* Properties of an operator session (Spec) *)

MutationsInFlight == { w \in workers : w.kind \in Mutations }

\* C1: a rotation requested for a key whose derived status in the store is
\* revoked or expired makes no backend call: no rotate worker is ever in
\* flight (its revoke_key dispatched) for such a key, however old the cached
\* list is.
C1_RotationPrecondition ==
    \A w \in workers :
        w.kind = "rotate" => w.track.status \notin {"revoked", "expired"}

\* C2: a rotation whose own revoke_key returned false stops there: it never
\* goes on to look up the owner or to call create_key.
C2_RotationAbortsOnFalse ==
    \A w \in workers :
        (w.kind = "rotate" /\ w.track.revoke_ret = "false")
            => w.pc \notin {"get_key_info", "create_key"}

\* C3: in every reachable state of a session at most one mutating worker
\* (create, revoke or rotate) is in flight.
C3_MutationGuard == Cardinality(MutationsInFlight) <= 1

\* the guard has acted: a mutation is in flight alone although another was in
\* flight when it was issued, and a refresh is in flight beside it
C3_Witness ==
    /\ Cardinality(MutationsInFlight) = 1
    /\ \E w \in MutationsInFlight : w.track.superseded
    /\ \E w \in workers : w.kind = "refresh"

\* C4: a mutation issued while another is outstanding has none of its backend
\* calls dispatched until the first has completed: no mutation is in flight
\* whose start found another one in flight and ended it uncompleted.
C4_MutationOrdering ==
    \A w \in MutationsInFlight : ~w.track.superseded

\* row of the table with this id
RowOf(table, key_id) ==
    table[CHOOSE i \in DOMAIN table : table[i].id = key_id]

\* this step is the rotation w completing successfully: create_key has
\* returned and the new key is shown
RotateSucceeds(w) ==
    /\ w \in workers
    /\ w.kind = "rotate"
    /\ w.pc = "create_key"
    /\ w.resp.state = "ok"
    /\ w \notin workers'
    /\ screens' = Append(screens, [screen |-> "new_key", key |-> w.resp.created])

\* C11: a rotation that completes successfully has changed the store in
\* exactly two ways since it started: the source record's revoked_at went
\* from unset to set, and one record with a fresh id was added; every other
\* record and every other field of the source is as it was, the new record is
\* active and the source revoked.
C11_RotationFrame ==
    [][\A w \in workers :
         RotateSucceeds(w) =>
            LET before == w.track.before
                src    == w.track.key_id
                new    == rows[Len(rows)]
            IN  /\ Len(rows) = Len(before) + 1
                /\ \E i \in DOMAIN before : before[i].id = src
                /\ \A i \in DOMAIN before :
                     IF before[i].id = src
                     THEN /\ before[i].revoked_at = None
                          /\ rows[i].revoked_at # None
                          /\ rows[i] = [before[i] EXCEPT !.revoked_at = rows[i].revoked_at]
                     ELSE rows[i] = before[i]
                /\ \A i \in DOMAIN before : before[i].id # new.id
                /\ RowStatus(new.revoked_at, new.expires_at, now) = "active"
                /\ RowStatus(RowOf(rows, src).revoked_at, RowOf(rows, src).expires_at,
                             now) = "revoked"]_vars

\* this step is the create_key of the rotation w adding its record
RotateCreates(w) ==
    /\ w \in workers
    /\ w.kind = "rotate"
    /\ w.pc = "create_key"
    /\ w.resp.state = "none"
    /\ Len(rows') = Len(rows) + 1

TestMarker == <<"m", "b", "m", "c", "p", "_", "t", "e", "s", "t">>

\* C12: the replacement a rotation creates has the source's label and rate
\* limit, the environment test if the source's prefix begins with mbmcp_test
\* and live otherwise, and no expiry whatever the source's expiry is.
C12_RotationCarryOver ==
    [][\A w \in workers :
         RotateCreates(w) =>
            LET src == RowOf(w.track.before, w.track.key_id)
                new == rows'[Len(rows')]
                env == IF SubSeq(src.key_prefix, 1, 10) = TestMarker
                       THEN "test" ELSE "live"
            IN  /\ new.label = src.label
                /\ new.rate_limit = src.rate_limit
                /\ SubSeq(new.key_prefix, 1, 6 + Len(EnvChars(env)))
                     = SubSeq(TestMarker, 1, 6) \o EnvChars(env)
                /\ new.expires_at = None]_vars

\* a rotation has created the replacement of a labelled test key that had an
\* expiry
C12_Witness ==
    \E w \in workers :
        /\ w.kind = "rotate"
        /\ w.pc = "create_key"
        /\ w.resp.state = "ok"
        /\ LET src == RowOf(w.track.before, w.track.key_id)
           IN  /\ src.expires_at # None
               /\ src.label # None
               /\ SubSeq(src.key_prefix, 1, 10) = TestMarker
        /\ Len(rows) = Len(w.track.before) + 1

\* C13: on the direct-store backend a rotation calls create_key only with the
\* owner refs of the source determined: when they cannot be determined after
\* the revoke it stops with an ownership-unresolved outcome, create_key is not
\* called and the source stays revoked.
C13_OwnershipUnresolved ==
    backend = "DB" =>
        \A w \in workers :
            (w.kind = "rotate" /\ w.pc = "create_key") =>
                /\ w.params[1].user_id # ""
                /\ w.params[1].project_id # ""

\* this step is the create_key of the rotation w failing
CreateFails(w) ==
    /\ w \in workers
    /\ w.kind = "rotate"
    /\ w.pc = "create_key"
    /\ w.resp.state = "none"
    /\ [w EXCEPT !.resp = Raised] \in workers'

\* the create_key of the rotation w has failed
CreateFailed(w) ==
    /\ w.kind = "rotate"
    /\ w.pc = "create_key"
    /\ w.resp.state = "raised"

\* a rotation calls revoke_key and create_key once each at most, after its
\* create_key has failed its source is revoked, and when it then leaves the
\* store is left as it is
NoRetryNoRollback ==
    /\ [](\A w \in workers :
            w.kind = "rotate" =>
               /\ w.track.revokes <= 1
               /\ w.track.creates <= 1
               /\ CreateFailed(w) => RowOf(rows, w.track.key_id).revoked_at # None)
    /\ [][\A w \in workers :
            (CreateFailed(w) /\ w \notin workers') => rows' = rows]_vars

RefreshReads ==
    \E r \in workers :
        /\ r.kind = "refresh"
        /\ r.resp.state = "none"
        /\ \E r2 \in workers' : r2.kind = "refresh" /\ r2.resp.state # "none"

\* C15: a refresh in flight does not keep a mutation from starting, and a
\* refresh issued while a mutation is in flight does not have its list_keys
\* read from the backend before that mutation has finished.
C15_RefreshVersusMutation ==
    /\ []((/\ \E r \in workers : r.kind = "refresh"
           /\ ~Busy
           /\ screens = << >>
           /\ \E idx \in DOMAIN keys : keys[idx].status = "active")
          => ENABLED action_revoke)
    /\ [][(\E m \in workers : m.kind \in Mutations /\ m.track.refresh_issued)
            => ~RefreshReads]_vars

-----------------------------------------------------------------------------
(* DbBackend: user / project helpers (backends.py), called directly.       *)
(* Strings that the code takes apart (names, slugs, ids) are sequences of  *)
(* characters.  Every cur.execute may raise; the connection is in          *)
(* autocommit mode, so the statements that ran before stay applied.        *)

MaxProjects == 3
MaxPrefixes == 2
MaxTails == 2

HexDigits == <<"a", "b", "c", "d", "e", "f">>

\* str(uuid.uuid4()): the first 8 characters, a hyphen and the rest (cut to
\* one character); uuid4 may return any of them
Uuids ==
    { <<"0", "0", "0", "0", "0", "0", "0", HexDigits[i], "-", HexDigits[j]>> :
        i \in 1..MaxPrefixes, j \in 1..MaxTails }

\* project_id[:8]
First8(id) == SubSeq(id, 1, 8)

Whitespace == {" ", "\t", "\n"}

WordChars == { BASE62[i] : i \in DOMAIN BASE62 } \cup {"_"}

\* str.lower(), one character
LowerChar(c) ==
    IF \E i \in 11..36 : BASE62[i] = c
    THEN BASE62[(CHOOSE i \in 11..36 : BASE62[i] = c) + 26]
    ELSE c

RECURSIVE LStrip(_, _)
LStrip(s, cls) ==
    IF s # << >> /\ Head(s) \in cls THEN LStrip(Tail(s), cls) ELSE s

RECURSIVE RStrip(_, _)
RStrip(s, cls) ==
    IF s # << >> /\ s[Len(s)] \in cls THEN RStrip(SubSeq(s, 1, Len(s) - 1), cls) ELSE s

\* str.strip() / str.strip("-")
Strip(s, cls) == RStrip(LStrip(s, cls), cls)

\* re.sub(r"[cls]+", "-", s): every maximal run of cls becomes one hyphen
RECURSIVE SubRuns(_, _)
SubRuns(s, cls) ==
    IF s = << >> THEN << >>
    ELSE IF Head(s) \in cls
         THEN IF Len(s) > 1 /\ s[2] \in cls
              THEN SubRuns(Tail(s), cls)
              ELSE <<"-">> \o SubRuns(Tail(s), cls)
         ELSE <<Head(s)>> \o SubRuns(Tail(s), cls)

\* name.lower().strip(), then the three re.sub, then s or "project"
_slugify(name) ==
    LET s1 == Strip([i \in DOMAIN name |-> LowerChar(name[i])], Whitespace)
        keep(c) == c \in WordChars \cup Whitespace \cup {"-"}
        s2 == SelectSeq(s1, keep)
        s3 == SubRuns(s2, Whitespace \cup {"_"})
        s4 == Strip(SubRuns(s3, {"-"}), {"-"})
    IN  IF s4 # << >> THEN s4 ELSE <<"p", "r", "o", "j", "e", "c", "t">>

\* where a call of find_or_create_user raises: at one of its statements, or
\* nowhere
UserFailures == {"none", "select", "insert"}

\* where a call of find_or_create_project raises
ProjectFailures ==
    {"none", "select", "select_slug", "insert_project", "insert_membership"}

\* a find_or_create_user that looks the user up by name instead of email
Bad_find_or_create_user(table, username, email, user_id, fail) ==
    LET found == { u \in table : u.name = username }
    IN  IF fail = "select" THEN [users |-> table, raised |-> TRUE, id |-> None]
        ELSE IF found # {}
        THEN [users |-> table, raised |-> FALSE, id |-> Some((CHOOSE u \in found : TRUE).id)]
        ELSE IF fail = "insert" THEN [users |-> table, raised |-> TRUE, id |-> None]
        ELSE [users  |-> table \cup {[id |-> user_id, email |-> email, name |-> username]},
              raised |-> FALSE, id |-> Some(user_id)]

\* user_id: what uuid.uuid4() returns, should the user be created
find_or_create_user(table, username, email, user_id, fail) ==
    LET found == { u \in table : u.email = email }
    IN  IF fail = "select" THEN [users |-> table, raised |-> TRUE, id |-> None]
        ELSE IF found # {}
        THEN [users |-> table, raised |-> FALSE, id |-> Some((CHOOSE u \in found : TRUE).id)]
        ELSE IF fail = "insert" THEN [users |-> table, raised |-> TRUE, id |-> None]
        ELSE [users  |-> table \cup {[id |-> user_id, email |-> email, name |-> username]},
              raised |-> FALSE, id |-> Some(user_id)]

\* INSERT INTO memberships ... 'owner' ON CONFLICT DO NOTHING
InsertMembership(table, owner_id, project_id) ==
    IF \E m \in table : m.user_id = owner_id /\ m.project_id = project_id
    THEN table
    ELSE table \cup {[user_id |-> owner_id, project_id |-> project_id, role |-> "owner"]}

\* project_id: what uuid.uuid4() returns, should the project be created
find_or_create_project(ptable, mtable, project_name, owner_id, project_id, fail) ==
    LET found == { q \in ptable : q.name = project_name /\ q.owner_id = owner_id }
        base  == _slugify(project_name)
        slug  == IF \E q \in ptable : q.slug = base
                 THEN base \o <<"-">> \o First8(project_id) ELSE base
        row   == [id |-> project_id, owner_id |-> owner_id, name |-> project_name,
                  slug |-> slug]
        same  == [projects |-> ptable, memberships |-> mtable]
    IN  IF fail = "select" THEN same @@ [raised |-> TRUE, id |-> None]
        ELSE IF found # {}
        THEN same @@ [raised |-> FALSE, id |-> Some((CHOOSE q \in found : TRUE).id)]
        ELSE IF fail \in {"select_slug", "insert_project"}
        THEN same @@ [raised |-> TRUE, id |-> None]
        ELSE IF fail = "insert_membership"
        THEN [projects |-> ptable \cup {row}, memberships |-> mtable,
              raised |-> TRUE, id |-> None]
        ELSE [projects |-> ptable \cup {row},
              memberships |-> InsertMembership(mtable, owner_id, project_id),
              raised |-> FALSE, id |-> Some(project_id)]

Usernames == {"ann", "bob"}

Emails == {"ann@example.com", "bob@example.com"}

MyProject == <<"M", "y", " ", "P", "r", "o", "j", "e", "c", "t", "!", "!">>

\* two names that _slugify maps to the same slug
ProjectNames ==
    { MyProject,
      <<" ", "m", "y", "_", "-", "p", "r", "o", "j", "e", "c", "t", "-">> }

\* uuid4 has not returned the id of an existing row
UniqueIds(table) == \A a, b \in table : a.id = b.id => a = b

\* nobody has been looked up or created yet
UsersInit ==
    /\ rows = << >>
    /\ now = 0
    /\ ret = NoCall
    /\ SessionIdle("DB")
    /\ IdentityIdle

\* the users table after find_or_create_user has created two users
TwoUsers ==
    LET r1 == find_or_create_user({}, "ann", "ann@example.com",
                  <<"0", "0", "0", "0", "0", "0", "0", "a", "-", "a">>, "none")
        r2 == find_or_create_user(r1.users, "bob", "bob@example.com",
                  <<"0", "0", "0", "0", "0", "0", "0", "b", "-", "a">>, "none")
    IN  r2.users

\* two users exist, no project yet
ProjectsInit ==
    /\ rows = << >>
    /\ now = 0
    /\ ret = NoCall
    /\ SessionIdle("DB")
    /\ users = TwoUsers
    /\ projects = {}
    /\ memberships = {}
    /\ conn = NoConn

DbFindOrCreateUser ==
    /\ \E username \in Usernames, email \in Emails, fail \in UserFailures :
         \E user_id \in Uuids :
            LET r == find_or_create_user(users, username, email, user_id, fail)
            IN  /\ UniqueIds(r.users)
                /\ users' = r.users
                /\ ret' = [NoCall EXCEPT !.op = "find_or_create_user",
                                         !.args = <<username, email>>,
                                         !.raised = r.raised, !.id = r.id]
    /\ UNCHANGED <<rows, now, projects, memberships, sessionVars, conn>>

DbFindOrCreateProject ==
    /\ \E project_name \in ProjectNames, owner \in users, fail \in ProjectFailures :
         \E project_id \in Uuids :
            LET r == find_or_create_project(projects, memberships, project_name,
                                            owner.id, project_id, fail)
            IN  /\ UniqueIds(r.projects)
                /\ Cardinality(r.projects) <= MaxProjects
                /\ projects' = r.projects
                /\ memberships' = r.memberships
                /\ ret' = [NoCall EXCEPT !.op = "find_or_create_project",
                                         !.args = <<project_name, owner.id>>,
                                         !.raised = r.raised, !.id = r.id]
    /\ UNCHANGED <<rows, now, users, sessionVars, conn>>

SpecUsers == UsersInit /\ [][DbFindOrCreateUser]_vars

SpecProjects == ProjectsInit /\ [][DbFindOrCreateProject]_vars

-----------------------------------------------------------------------------
(* Properties of the user / project helpers (SpecUsers, SpecProjects) *)

Fresh(table) == Uuids \ { r.id : r \in table }

\* two calls in a row with the same email, whatever the usernames, both returning
SameUserTwice(n1, n2, e) ==
    \A id1 \in Fresh(users) :
        LET r1 == find_or_create_user(users, n1, e, id1, "none")
        IN  \A id2 \in Fresh(r1.users) :
                LET r2 == find_or_create_user(r1.users, n2, e, id2, "none")
                IN  /\ r2.id = r1.id
                    /\ r2.users = r1.users
                    /\ Cardinality({ u \in r2.users : u.email = e }) = 1

\* C16: find_or_create_user is idempotent on email: two calls with the same
\* email, whatever the username, return the same user id, and the users table
\* holds exactly one row per email it was called with.
C16_UserIdempotent ==
    /\ [](\A n1, n2 \in Usernames, e \in Emails : SameUserTwice(n1, n2, e))
    /\ [](\A u1, u2 \in users : u1.email = u2.email => u1 = u2)
    /\ [][(ret'.op = "find_or_create_user" /\ ~ret'.raised)
            => /\ users \subseteq users'
               /\ \E u \in users' : u.email = ret'.args[2] /\ ret'.id = Some(u.id)
               /\ (\E v \in users : v.email = ret'.args[2]) => users' = users]_vars

\* a call with the email of an existing user and another username returned
\* that user's id, the table holding a second user beside it
C16_Witness ==
    /\ ret.op = "find_or_create_user"
    /\ ~ret.raised
    /\ Cardinality(users) = 2
    /\ \E u \in users :
         u.email = ret.args[2] /\ u.name # ret.args[1] /\ ret.id = Some(u.id)

\* the owner-role membership rows of a project
OwnerRows(mtable, project_id, owner_id) ==
    { m \in mtable :
        m.project_id = project_id /\ m.user_id = owner_id /\ m.role = "owner" }

\* two calls in a row with the same name and owner, both returning
SameProjectTwice(name, owner_id) ==
    \A id1 \in Fresh(projects) :
        LET r1 == find_or_create_project(projects, memberships, name, owner_id, id1, "none")
        IN  \A id2 \in Fresh(r1.projects) :
                LET r2 == find_or_create_project(r1.projects, r1.memberships, name,
                                                 owner_id, id2, "none")
                IN  /\ r2.id = r1.id
                    /\ r2.projects = r1.projects
                    /\ r2.memberships = r1.memberships
                    /\ Cardinality({ q \in r2.projects :
                                        q.name = name /\ q.owner_id = owner_id }) = 1
                    /\ Cardinality(OwnerRows(r2.memberships, r2.id[1], owner_id)) = 1

\* C17: find_or_create_project is idempotent on (name, owner): two calls with
\* the same name and owner return the same project id and leave exactly one
\* project row and exactly one owner-role membership row for the pair; the
\* second call inserts nothing.
C17_ProjectIdempotent ==
    /\ [](\A name \in ProjectNames, owner \in users : SameProjectTwice(name, owner.id))
    /\ [][(ret'.op = "find_or_create_project" /\ ~ret'.raised
            /\ \E q \in projects : q.name = ret'.args[1] /\ q.owner_id = ret'.args[2])
            => projects' = projects /\ memberships' = memberships]_vars

my_project == <<"m", "y", "-", "p", "r", "o", "j", "e", "c", "t">>

\* the slug a new row is stored with: the one derived from its name, or, that
\* one being taken before the call, the same followed by a hyphen and the
\* first 8 characters of the row's id
StoredSlug(q) ==
    IF \E o \in projects : o.slug = _slugify(q.name)
    THEN q.slug = _slugify(q.name) \o <<"-">> \o First8(q.id)
    ELSE q.slug = _slugify(q.name)

\* C18: no two project rows have the same slug; a new project whose derived
\* slug is taken is stored with that slug, a hyphen and the first 8 characters
\* of its own id; "My Project!!" gives "my-project".
C18_SlugUnique ==
    /\ _slugify(MyProject) = my_project
    /\ [](\A q1, q2 \in projects : q1.slug = q2.slug => q1 = q2)
    /\ [][\A q \in projects' \ projects : StoredSlug(q)]_vars

\* C19: a find_or_create_project that fails leaves the user rows in place and
\* inserts neither the project nor its membership; in every state a project
\* row exists if and only if its owner-role membership row exists.
C19_NoPartialIdentity ==
    /\ [](\A q \in projects : OwnerRows(memberships, q.id, q.owner_id) # {})
    /\ [](\A m \in memberships :
            \E q \in projects : q.id = m.project_id /\ q.owner_id = m.user_id)
    /\ [][users \subseteq users']_vars
    /\ [][(ret'.op = "find_or_create_project" /\ ret'.raised)
            => projects' = projects /\ memberships' = memberships]_vars

-----------------------------------------------------------------------------
(* Plaintext secrets and the direct store (SpecDb) *)

\* the secret behind a stored row: what its key_hash is the digest of
SecretOf(d) == d.key_hash[2]

Secrets == { SecretOf(rows[i]) : i \in DOMAIN rows }

\* the columns of an api_keys row
Columns ==
    {"id", "user_id", "project_id", "key_hash", "key_prefix", "label", "scopes",
     "rate_limit", "last_used_at", "expires_at", "created_at", "revoked_at"}

\* the fields of a row or a returned record that are made from a secret
KeyFields == {"key", "prefix", "key_prefix", "key_hash"}

\* record rec has the secret in one of its fields
Carries(rec, secret) == \E f \in DOMAIN rec \cap KeyFields : rec[f] = secret

\* C20: a stored row holds only the hash and the 16-character prefix of its
\* secret; no record that list_keys or get_key_info returns carries a
\* plaintext; the only result that does is that of the create_key call that
\* generated it.
C20_PlaintextNotPersisted ==
    /\ \A i \in DOMAIN rows :
         LET d == rows[i]
         IN  /\ DOMAIN d = Columns
             /\ d.key_hash = hash_api_key(SecretOf(d))
             /\ d.key_prefix = SubSeq(SecretOf(d), 1, 16)
             /\ Len(d.key_prefix) = 16
             /\ Len(SecretOf(d)) > 16
             /\ ~Carries(d, SecretOf(d))
    /\ \A secret \in Secrets :
         /\ \A i \in DOMAIN ret.listing : ~Carries(ret.listing[i], secret)
         /\ ret.info # None => ~Carries(ret.info[1], secret)
         /\ ret.created # None
              => (Carries(ret.created[1], secret)
                    <=> secret = SecretOf(rows[ret.created[1].id]))
    /\ ret.created # None <=> ret.op = "create_key"
    /\ ret.op = "create_key" => ret.created[1].key = SecretOf(rows[ret.created[1].id])

\* both stored keys have been listed, and the listing carries neither secret
C20_Witness ==
    /\ ret.op = "list_keys"
    /\ Len(rows) = 2
    /\ Len(ret.listing) = 2
    /\ Cardinality(Secrets) = 2

-----------------------------------------------------------------------------
(* Disclosure, supersession and the cached list (Spec) *)

\* this step ends the worker w: nothing of it is left at the call it stood at
Leaves(w) ==
    /\ w \in workers
    /\ ~\E v \in workers' :
          v.id = w.id /\ v.kind = w.kind /\ v.pc = w.pc /\ v.resp = w.resp

\* the create_key of w has returned the record of the key it created
KeyCreated(w) ==
    /\ w.kind \in {"create", "rotate"}
    /\ w.pc = "create_key"
    /\ w.resp.state = "ok"

NewKeyResultScreen(w) == [screen |-> "new_key", key |-> w.resp.created]

\* C21: every key this session's create or rotate has created has its
\* plaintext shown exactly once: the worker whose create_key returned the
\* record never ends without pushing the NewKeyResultScreen of that key,
\* cancellation included, and that screen is pushed by nothing else.
C21_OneTimeDisclosure ==
    /\ [][\A w \in workers :
            (KeyCreated(w) /\ Leaves(w))
               => screens' = Append(screens, NewKeyResultScreen(w))]_vars
    /\ [][(Len(screens') > Len(screens)
           /\ screens'[Len(screens')].screen = "new_key")
            => \E w \in workers :
                  /\ KeyCreated(w)
                  /\ Leaves(w)
                  /\ screens' = Append(screens, NewKeyResultScreen(w))]_vars

\* the owner refs of create_key's arguments name no user or no project
OwnerUnresolved(p) ==
    \/ p.user_id \notin { u.id : u \in users }
    \/ p.project_id \notin { q.id : q \in projects }

\* this step is the backend answering the create_key of w on the DbBackend
DbCreateAnswered(w) ==
    /\ backend = "DB"
    /\ w \in workers
    /\ w.pc = "create_key"
    /\ w.resp.state = "none"
    /\ \E v \in workers' : v.resp.state # "none" /\ [v EXCEPT !.resp = NoResp] = w

\* the response this step gives w
Answer(w) ==
    (CHOOSE v \in workers' : v.resp.state # "none" /\ [v EXCEPT !.resp = NoResp] = w).resp

\* C23: a create_key on the DbBackend whose owner refs are empty or name no
\* user or project fails with a validation error and inserts no row; with
\* resolvable owner refs it fails only with a backend (store) error.
C23_OwnershipValidation ==
    [][\A w \in workers :
         DbCreateAnswered(w) =>
            IF OwnerUnresolved(w.params[1])
            THEN /\ rows' = rows
                 /\ Answer(w).state = "raised"
                 /\ Answer(w).error = "validation"
            ELSE Answer(w).state = "raised" => Answer(w).error = "backend"]_vars

(***************************************************************************)
(* The connection handle and health_check (SpecConn)                       *)
(***************************************************************************)

MaxOpens == 3

\* DbBackend._get_conn: connect when the handle is None or shows closed, and
\* return the handle. connects: psycopg2.connect succeeds; when it raises, the
\* assignment to self._conn never happens.
_get_conn(c, connects) ==
    IF ~c.set \/ c.closed
    THEN IF connects
         THEN [raised |-> FALSE,
               conn |-> [set |-> TRUE, closed |-> FALSE, alive |-> TRUE,
                         opens |-> c.opens + 1]]
         ELSE [raised |-> TRUE, conn |-> c]
    ELSE [raised |-> FALSE, conn |-> c]

\* cur.execute on the handle: on a connection whose server end is gone it
\* raises, and psycopg2 then marks the handle closed
Execute(c) ==
    IF c.alive THEN [raised |-> FALSE, conn |-> c]
    ELSE [raised |-> TRUE, conn |-> [c EXCEPT !.closed = TRUE]]

\* conn = self._get_conn(); with conn.cursor() as cur: cur.execute(...)
\* ran_on: the state of the connection the statement was sent on
Run(c, connects) ==
    LET g == _get_conn(c, connects)
        e == Execute(g.conn)
    IN  IF g.raised
        THEN [raised |-> TRUE, conn |-> g.conn, ran_on |-> "none"]
        ELSE [raised |-> e.raised, conn |-> e.conn,
              ran_on |-> IF g.conn.alive THEN "open" ELSE "closed"]

\* DbBackend.health_check: SELECT 1 through _get_conn, every exception caught
DbHealthCheck(c, connects) ==
    LET r == Run(c, connects)
    IN  [result |-> ~r.raised, conn |-> r.conn, ran_on |-> r.ran_on]

\* what GET /api/keys can come back with
HealthReplies == { Reply(s) : s \in {200, 401, 404, 500, 503} } \cup {TimedOut}

Bad_HttpHealthCheck(reply) == ~reply.timeout /\ reply.status < 400

\* HttpBackend.health_check: r.status_code < 500, every exception caught
HttpHealthCheck(reply) ==
    IF reply.timeout THEN FALSE ELSE reply.status < 500

\* psycopg2.connect may succeed or raise
Connects == IF conn.opens < MaxOpens THEN BOOLEAN ELSE {FALSE}

ConnInit ==
    /\ rows = << >>
    /\ now = 0
    /\ ret = NoCall
    /\ \E b \in {"HTTP", "DB"} : SessionIdle(b)
    /\ IdentityIdle

ConnCreate ==
    /\ backend = "DB"
    /\ Len(rows) < MaxRows
    /\ \E p \in CreateInputs, connects \in Connects :
         LET c == Run(conn, connects)
             r == DbCreateKey(rows, p, RandomBytes(Len(rows)), now)
         IN  /\ conn' = c.conn
             /\ rows' = IF c.raised THEN rows ELSE r.rows
             /\ ret' = [NoCall EXCEPT !.op = "create_key", !.at = now,
                                      !.raised = c.raised,
                                      !.created = IF c.raised THEN None
                                                  ELSE Some(r.result),
                                      !.ran_on = c.ran_on,
                                      !.opened = c.conn.opens > conn.opens]
    /\ UNCHANGED <<now, sessionVars, identityVars>>

ConnRevoke ==
    /\ backend = "DB"
    /\ \E key_id \in KeyIds, connects \in Connects :
         LET c == Run(conn, connects)
             r == DbRevokeKey(rows, key_id, now)
         IN  /\ conn' = c.conn
             /\ rows' = IF c.raised THEN rows ELSE r.rows
             /\ ret' = [NoCall EXCEPT !.op = "revoke_key", !.key_id = key_id,
                                      !.at = now, !.raised = c.raised,
                                      !.ok = ~c.raised /\ r.result,
                                      !.ran_on = c.ran_on,
                                      !.opened = c.conn.opens > conn.opens]
    /\ UNCHANGED <<now, sessionVars, identityVars>>

ConnList ==
    /\ backend = "DB"
    /\ \E include_revoked \in BOOLEAN, connects \in Connects :
         \E listing \in DbListKeys(rows, include_revoked, now) :
             LET c == Run(conn, connects)
             IN  /\ conn' = c.conn
                 /\ ret' = [NoCall EXCEPT !.op = "list_keys",
                                          !.include = include_revoked,
                                          !.at = now, !.raised = c.raised,
                                          !.listing = IF c.raised THEN << >>
                                                      ELSE listing,
                                          !.ran_on = c.ran_on,
                                          !.opened = c.conn.opens > conn.opens]
    /\ UNCHANGED <<rows, now, sessionVars, identityVars>>

ConnHealth ==
    /\ backend = "DB"
    /\ \E connects \in Connects :
         LET h == DbHealthCheck(conn, connects)
         IN  /\ conn' = h.conn
             /\ ret' = [NoCall EXCEPT !.op = "health_check", !.at = now,
                                      !.ok = h.result, !.ran_on = h.ran_on,
                                      !.opened = h.conn.opens > conn.opens]
    /\ UNCHANGED <<rows, now, sessionVars, identityVars>>

HttpHealth ==
    /\ backend = "HTTP"
    /\ \E reply \in HealthReplies :
         ret' = [NoCall EXCEPT !.op = "health_check", !.at = now,
                               !.ok = HttpHealthCheck(reply),
                               !.cause = Some(reply)]
    /\ UNCHANGED <<rows, now, sessionVars, identityVars, conn>>

\* the server, or the network, closes the connection behind the handle; the
\* handle's closed attribute does not change until a statement fails on it
ConnDrop ==
    /\ backend = "DB"
    /\ conn.set /\ conn.alive
    /\ conn' = [conn EXCEPT !.alive = FALSE]
    /\ UNCHANGED <<rows, now, ret, sessionVars, identityVars>>

ConnNext ==
    ConnCreate \/ ConnRevoke \/ ConnList \/ ConnHealth \/ HttpHealth \/ ConnDrop

SpecConn == ConnInit /\ [][ConnNext]_vars

\* C24: health_check never raises and returns a boolean. The HttpBackend
\* returns true exactly for a reply with a status below 500 (4xx included)
\* and false for 5xx, timeout and connection error; the DbBackend returns
\* true exactly when SELECT 1 ran on an open connection, false when the
\* connect or the statement failed.
C24_HealthCheckNeverRaises ==
    ret.op = "health_check" =>
        /\ ~ret.raised
        /\ ret.ok \in BOOLEAN
        /\ backend = "HTTP" =>
             /\ ret.cause # None
             /\ ret.ok <=> /\ ~ret.cause[1].timeout
                           /\ ret.cause[1].status \in 0..499
        /\ backend = "DB" => (ret.ok <=> ret.ran_on = "open")

C24_Witness ==
    /\ ret.op = "health_check"
    /\ backend = "HTTP"
    /\ ret.cause = Some(Reply(404))
    /\ ret.ok

\* C25: constructing the backend opens no connection; an operation opens a
\* connection exactly when the handle is unset or shows closed, and otherwise
\* reuses the one it holds; no operation runs its statement on a closed
\* connection, external closures included.
C25_LazyConnection ==
    /\ [](ret.op = "none" => conn.opens = 0)
    /\ [](ret.ran_on # "closed")
    /\ [][ret' # ret /\ backend = "DB" =>
            /\ ret'.opened => ~conn.set \/ conn.closed
            /\ (~conn.set \/ conn.closed) /\ ret'.ran_on # "none" => ret'.opened
            /\ ~ret'.opened /\ ret'.ran_on # "none" =>
                 conn'.opens = conn.opens /\ conn.set]_vars

(***************************************************************************)
(* Record shape of the two backends (Spec)                                 *)
(***************************************************************************)

\* the records the two backends of this session's tool return for the same
\* api_keys rows: DbBackend.list_keys builds its dicts, HttpBackend.list_keys
\* hands on the dicts of the reply
BothListings(include_revoked) ==
    { [db |-> SessionDicts(l), http |-> HttpListKeys(o).result] :
        <<l, o>> \in { <<l, o>> \in DbListKeys(rows, include_revoked, now)
                                    \X ServerGet(rows, include_revoked, now) :
                         ~Raises(o.reply) } }

\* same field names and same status, for a record or for None
SameShape(a, b) ==
    /\ a = None <=> b = None
    /\ a # None => DOMAIN a[1] = DOMAIN b[1] /\ a[1].status = b[1].status

\* C26: for the same persisted keys, list_keys and get_key_info of the
\* HttpBackend and of the DbBackend return records for the same keys, with the
\* same set of field names and the same derived status for every key.
C26_SameRecordShape ==
    \A include_revoked \in BOOLEAN :
        \A both \in BothListings(include_revoked) :
            \A key_id \in KeyIds :
                SameShape(GetKeyInfo(both.db, key_id),
                          GetKeyInfo(both.http, key_id))

(***************************************************************************)
(* Key generation (SpecKeygen)                                             *)
(***************************************************************************)

\* secrets.token_bytes(32): 32 bytes, each 0..255
TokenBytes ==
    { [i \in 1..32 |-> (a + i * b) % 256] : a \in 0..255, b \in {1, 31} }

KeygenInit ==
    /\ rows = << >>
    /\ now = 0
    /\ ret = NoCall
    /\ SessionIdle("DB")
    /\ IdentityIdle

Generate ==
    /\ \E environment \in {"live", "test"}, random_bytes \in TokenBytes :
         ret' = [NoCall EXCEPT !.op = "generate_api_key",
                               !.args = <<environment, random_bytes>>,
                               !.created = Some(generate_api_key(environment,
                                                                 random_bytes))]
    /\ UNCHANGED <<rows, now, sessionVars, identityVars, conn>>

SpecKeygen == KeygenInit /\ [][Generate]_vars

\* C27: for environment live or test, generate_api_key returns a plaintext
\* that is "mbmcp_", the environment, "_" and then exactly 32 characters, the
\* i-th being the symbol that byte i modulo 62 indexes in the digits, then the
\* uppercase, then the lowercase letters; a prefix that is the first 16
\* characters of that plaintext; and the hash hash_api_key gives for it.
C27_KeyFormat ==
    ret.op = "generate_api_key" =>
        LET environment == ret.args[1]
            random_bytes == ret.args[2]
            k      == ret.created[1]
            digits == <<"0","1","2","3","4","5","6","7","8","9">>
            upper  == <<"A","B","C","D","E","F","G","H","I","J","K","L","M",
                        "N","O","P","Q","R","S","T","U","V","W","X","Y","Z">>
            lower  == <<"a","b","c","d","e","f","g","h","i","j","k","l","m",
                        "n","o","p","q","r","s","t","u","v","w","x","y","z">>
            head   == IF environment = "live"
                      THEN <<"m","b","m","c","p","_","l","i","v","e","_">>
                      ELSE <<"m","b","m","c","p","_","t","e","s","t","_">>
        IN  /\ DOMAIN k = {"plaintext", "prefix", "hash"}
            /\ Len(k.plaintext) = 11 + 32
            /\ SubSeq(k.plaintext, 1, 11) = head
            /\ \A i \in 1..32 :
                 LET v == random_bytes[i] % 62
                 IN  k.plaintext[11 + i] =
                        IF v < 10 THEN digits[v + 1]
                        ELSE IF v < 36 THEN upper[v - 9]
                        ELSE lower[v - 35]
            /\ Len(k.prefix) = 16
            /\ \A i \in 1..16 : k.prefix[i] = k.plaintext[i]
            /\ k.hash = hash_api_key(k.plaintext)

\* a byte above 61 has been mapped: 255 gives "7", 30 (the next byte) "U"
C27_Witness ==
    /\ ret.op = "generate_api_key"
    /\ ret.args[1] = "test"
    /\ ret.args[2][1] = 255 /\ ret.args[2][2] = 30
    /\ SubSeq(ret.created[1].plaintext, 12, 13) = <<"7", "U">>

(***************************************************************************)
(* Supersession of a rotation, refresh against mutation, stale reads (Spec)*)
(***************************************************************************)

\* a rotation whose revoke_key has returned true and whose create_key has
\* not returned yet
SourceRevoked(w) ==
    /\ w.kind = "rotate"
    /\ \/ w.pc = "revoke_key" /\ w.resp.state = "ok" /\ w.resp.ok
       \/ w.pc = "get_key_info" /\ w.track.revoke_ret = "true"
       \/ w.pc = "create_key" /\ w.track.revoke_ret = "true"
                              /\ w.resp.state = "none"

\* the rotation is still a worker after the step (a rotation started by the
\* step is at revoke_key, unanswered)
Continues(w) ==
    \E v \in workers' : /\ v.id = w.id
                        /\ v.kind = "rotate"
                        /\ ~(v.pc = "revoke_key" /\ v.resp = NoResp)

\* C28: starting another create, revoke or rotate never cancels a rotation
\* that has revoked its source key and whose create_key has not returned;
\* such a rotation stops being a worker only when its own handler ends it,
\* having received the answer it was waiting for (the new key, or the failure
\* it reports).
C28_NoHalfDoneRotation ==
    [][\A w \in workers :
         SourceRevoked(w) =>
             /\ (\E v \in workers' \ workers : v.kind \in Mutations)
                  => Continues(w)
             /\ ~Continues(w) => /\ w.resp.state # "none"
                                 /\ workers' = workers \ {w}]_vars

\* the step starts a refresh worker
RefreshStarts == \E v \in workers' \ workers : v.kind = "refresh"

\* the worker is after the step what it was before it: same kind, same
\* position, same arguments, same pending answer
StillRunning(w) == \E v \in workers' : [v EXCEPT !.track = w.track] = w

\* C29: in both tools, starting a refresh (Refresh, toggle-revoked, the
\* refresh after connecting or after a dialog) while a create, revoke or
\* rotate worker is in flight leaves that worker as it was; the only worker a
\* new refresh replaces is an outstanding refresh.
C29_RefreshKeepsMutation ==
    [][RefreshStarts =>
         \A w \in workers : w.kind \in Mutations => StillRunning(w)]_vars

\* the list shows the key with this id as active
ShowsActive(listing, key_id) ==
    \E i \in DOMAIN listing : listing[i].id = key_id /\ listing[i].status = "active"

\* the step is the resumption of a refresh whose list_keys answer is older
\* than the revocation of a key: it puts that key, which the reloaded cache
\* no longer showed as active, back into the cache as active
StaleOverwrite(w) ==
    /\ w.kind = "refresh" /\ w.resp.state = "ok"
    /\ ~StillRunning(w)
    /\ keys' = w.resp.listing
    /\ \E i \in DOMAIN rows :
         /\ rows[i].revoked_at # None
         /\ ~ShowsActive(keys, rows[i].id)
         /\ ShowsActive(keys', rows[i].id)

\* C30: once a key has been revoked and the cache reloaded after it (as
\* _do_revoke does), no refresh whose list_keys read is older than the
\* revocation overwrites the cache; so no such step leaves the session, with
\* or without workers in flight, showing as active a key it has revoked.
C30_NoStaleOverwrite ==
    [][\A w \in workers : ~StaleOverwrite(w)]_vars

(***************************************************************************)
(* Reconnecting during a session (SpecReconnect)                           *)
(***************************************************************************)

\* action_reconnect, with the ConnectionScreen dismissed with a backend:
\* on_result sets self.backend and self.connected and calls action_refresh,
\* which replaces an outstanding refresh and no other worker
action_reconnect ==
    /\ screens = << >>
    /\ ~Busy
    /\ \E b \in {"HTTP", "DB"} :
         /\ backend' = b
         /\ workers' = RefreshIssued(workers \ CancelGroup(workers, Group("refresh")))
                       \cup {[Worker(0, "refresh", "list_keys", None, None,
                                     show_revoked, NoTrack) EXCEPT !.via = b]}
    /\ connected' = TRUE
    /\ UNCHANGED <<rows, now, ret, identityVars, conn, app, show_revoked, keys, screens>>

\* an api-key-manager session on the one-key store
ReconnectInit == Init /\ app = "manager" /\ rows = InitialRows

ReconnectNext ==
    \/ action_refresh
    \/ _do_auto_refresh
    \/ action_toggle_revoked
    \/ action_rotate
    \/ action_revoke
    \/ action_create
    \/ Dismiss
    \/ Exec
    \/ Resume
    \/ Clock
    \/ action_reconnect

SpecReconnect == ReconnectInit /\ [][ReconnectNext]_vars

\* C31: every backend call of one rotation goes to the backend its
\* revoke_key went to, also when a reconnect to another backend completes
\* while the rotation is in flight: a rotation that goes on to its next call
\* makes it on the backend of the call before.
C31_OneBackendPerRotation ==
    [][\A w \in workers : \A v \in workers' :
         /\ w.kind = "rotate" /\ v.kind = "rotate" /\ v.id = w.id
         /\ ~(v.pc = "revoke_key" /\ v.resp = NoResp)
         => v.via = w.via]_vars

(***************************************************************************)
(* Rotation: ownership and call order (Spec)                               *)
(***************************************************************************)

\* a rotation on the DbBackend whose create_key has inserted the replacement
ReplacementCreated(w) ==
    /\ w.kind = "rotate" /\ w.pc = "create_key"
    /\ w.via = "DB" /\ w.resp.state = "ok"

\* C32: on the DbBackend, the replacement a rotation creates is stored with
\* the user_id and project_id of the source key's row, never with empty
\* owner refs.
C32_RotationKeepsOwner ==
    \A w \in workers :
        ReplacementCreated(w) =>
            LET new == RowOf(rows, w.resp.created[1].id)
                old == RowOf(rows, w.key[1].id)
            IN  /\ new.user_id = old.user_id
                /\ new.project_id = old.project_id
                /\ new.user_id # "" /\ new.project_id # ""

\* C34: within one rotation revoke_key is called exactly once and has
\* returned before get_key_info or create_key is called; create_key is called
\* at most once; and a rotation whose call raised makes no further call: it
\* is not a worker after it has been resumed.
C34_RotationCallOrder ==
    /\ [](\A w \in workers :
            w.kind = "rotate" =>
                /\ w.track.revokes = 1
                /\ w.track.creates = IF w.pc = "create_key" THEN 1 ELSE 0
                /\ w.pc = "revoke_key" => w.track.revoke_ret = "none"
                /\ w.pc \in {"get_key_info", "create_key"}
                     => w.track.revoke_ret \in {"true", "false"})
    /\ [][\A w \in workers :
            w.kind = "rotate" /\ w.resp.state = "raised" =>
                \A v \in workers' :
                    v.kind = "rotate" /\ v.id = w.id =>
                        \/ [v EXCEPT !.track = w.track] = w
                        \/ v.pc = "revoke_key" /\ v.resp = NoResp]_vars

\* a rotation has made its one revoke_key and its one create_key, in that
\* order, and the replacement has been created
C34_Witness ==
    \E w \in workers :
        /\ w.kind = "rotate" /\ w.pc = "create_key" /\ w.resp.state = "ok"
        /\ w.track.revokes = 1 /\ w.track.creates = 1
        /\ w.track.revoke_ret = "true"

(***************************************************************************)
(* The create flow of api-key-manager on the DbBackend (SpecCreate)        *)
(***************************************************************************)

\* _do_create with the dict CreateKeyScreen.do_create dismisses with in DB
\* mode (username, email, project_name and the key parameters). The first
\* backend call is find_or_create_user(username): the method requires
\* (username, email), so binding the arguments raises TypeError before its
\* body runs; except Exception notifies "Create failed" and the worker ends.
\* No statement reaches the store.
_do_create_DbBackend ==
    /\ \E username \in Usernames, email \in Emails, project_name \in ProjectNames :
         \E p \in FormInputs :
            ret' = [NoCall EXCEPT !.op = "_do_create",
                                  !.args = <<username, email, project_name, p>>]
    /\ UNCHANGED <<rows, now, sessionVars, identityVars, conn>>

SpecCreate == UsersInit /\ [][DbFindOrCreateUser \/ _do_create_DbBackend]_vars

\* C33: in api-key-manager on the DbBackend, a submitted create form with
\* username, email, project name and key parameters leaves a user with that
\* email, a project with that name owned by that user, and exactly one new
\* key row owned by the two.
C33_CreateFlow ==
    [][ret'.op = "_do_create" /\ ret' # ret =>
         \E u \in users' : \E q \in projects' :
            /\ u.email = ret'.args[2]
            /\ q.name = ret'.args[3] /\ q.owner_id = u.id
            /\ Len(rows') = Len(rows) + 1
            /\ rows'[Len(rows')].user_id = u.id
            /\ rows'[Len(rows')].project_id = q.id]_vars

(***************************************************************************)
(* Disconnected after a failed refresh (SpecReconnect)                     *)
(***************************************************************************)

\* the step resumes refresh w with the exception its list_keys raised
RefreshFailed(w) ==
    /\ w.kind = "refresh" /\ w.resp.state = "raised"
    /\ workers' = workers \ {w}

\* C35: in api-key-manager a failed refresh sets connected to false and
\* leaves the cached list as it was; while connected is false the auto-refresh
\* timer starts no list_keys; and connected becomes true again only by a
\* backend accepted through reconnect, not by a manual refresh that succeeds.
C35_DisconnectedSticky ==
    /\ [](~connected => ~ENABLED _do_auto_refresh)
    /\ [][/\ \A w \in workers : RefreshFailed(w) => ~connected' /\ keys' = keys
          /\ ~connected /\ connected' => action_reconnect]_vars

\* disconnected, and a later manual refresh has been answered with a list
C35_Witness ==
    /\ ~connected
    /\ \E w \in workers : w.kind = "refresh" /\ w.resp.state = "ok"

(***************************************************************************)
(* get_key_info of both backends on one store (SpecInfo)                   *)
(***************************************************************************)

\* HttpBackend.get_key_info: list_keys(include_revoked=True), first record
\* with the id; an exception of list_keys propagates
HttpGet ==
    /\ \E key_id \in KeyIds :
         \E out \in ServerGet(rows, TRUE, now) :
             LET r == HttpListKeys(out)
             IN  ret' = [NoCall EXCEPT !.op = "get_key_info", !.key_id = key_id,
                                       !.at = now, !.raised = r.raised,
                                       !.transport = TransportFailure(out.reply),
                                       !.cause = r.cause,
                                       !.info = IF r.raised THEN None
                                                ELSE GetKeyInfo(r.result, key_id)]
    /\ UNCHANGED <<rows, now, sessionVars, identityVars, conn>>

SpecInfo == DbInit /\ [][DbCreate \/ DbRevoke \/ Tick \/ DbGet \/ HttpGet]_vars

\* C36: a get_key_info(id) that returns, on either backend, returns None
\* exactly when the store has no key with that id, and otherwise the record
\* of that key as list_keys(include_revoked=True) gives it at that moment:
\* every field it has is the field of the row's record, the status is derived
\* from the row, and revoked and expired keys are found like active ones.
C36_GetKeyInfoAgrees ==
    ret.op = "get_key_info" /\ ~ret.raised =>
        LET hit == { i \in DOMAIN rows : rows[i].id = ret.key_id }
        IN  /\ ret.info = None <=> hit = {}
            /\ \A i \in hit :
                 LET record == RowDict(rows[i], ret.at)
                 IN  /\ DOMAIN record \ {"user_id", "project_id"}
                          \subseteq DOMAIN ret.info[1]
                     /\ \A f \in DOMAIN ret.info[1] : ret.info[1][f] = record[f]
                     /\ ret.info[1].status
                          = RowStatus(rows[i].revoked_at, rows[i].expires_at, ret.at)

\* the HttpBackend has returned the record of a revoked key
C36_Witness ==
    /\ ret.op = "get_key_info" /\ ~ret.raised
    /\ ret.info # None
    /\ ret.info[1].status = "revoked"
    /\ "user_id" \notin DOMAIN ret.info[1]

(***************************************************************************)
(* DbBackend.create_key over its arguments (SpecCreateKey)                 *)
(***************************************************************************)

\* the arguments of a direct call: no expiry, a negative, a zero and a
\* positive number of days; no scopes, an empty list and a list; no label and
\* a label
CreateArguments ==
    { [user_id |-> "u1", project_id |-> "p1", label |-> label,
       environment |-> "live", expires_in_days |-> expires_in_days,
       scopes |-> scopes, rate_limit |-> rate_limit] :
         label \in {None, Some("Prod")},
         expires_in_days \in {None, Some(-1), Some(0), Some(1)},
         scopes \in {None, Some(<< >>), Some(<<"read">>)},
         rate_limit \in {60, 120} }

\* create_key(**p) on the DbBackend; ret.args keeps the arguments
DbCreateWith ==
    /\ Len(rows) < MaxRows
    /\ \E p \in CreateArguments :
         LET r == DbCreateKey(rows, p, RandomBytes(Len(rows)), now)
         IN  /\ rows' = r.rows
             /\ ret' = [NoCall EXCEPT !.op = "create_key", !.at = now,
                                      !.args = <<p>>,
                                      !.created = Some(r.result)]
    /\ UNCHANGED <<now, sessionVars, identityVars, conn>>

SpecCreateKey == DbInit /\ [][DbCreateWith \/ Tick]_vars

\* C37: a create_key call on the DbBackend that returns has appended exactly
\* one row, with an id no earlier row has, and left the earlier rows as they
\* were; the returned record's prefix is the first 16 characters of the
\* returned plaintext, its label and rateLimit are the arguments, its scopes
\* are the argument or the empty list when none was given; expiresAt is unset
\* exactly when expires_in_days is None, zero or negative, and otherwise is
\* the time of the call plus that many days.
C37_CreateKeyPostcondition ==
    [][ret' # ret =>
         LET p      == ret'.args[1]
             record == ret'.created[1]
             n      == Len(rows)
         IN  /\ ret'.op = "create_key"
             /\ Len(rows') = n + 1
             /\ SubSeq(rows', 1, n) = rows
             /\ rows'[n + 1].id = record.id
             /\ \A i \in 1..n : rows[i].id # record.id
             /\ Len(record.key) > 16
             /\ record.prefix = SubSeq(record.key, 1, 16)
             /\ rows'[n + 1].key_prefix = record.prefix
             /\ record.label = p.label
             /\ record.scopes = (IF p.scopes = None THEN << >> ELSE p.scopes[1])
             /\ record.rateLimit = p.rate_limit
             /\ record.expiresAt = None
                  <=> (p.expires_in_days = None \/ p.expires_in_days[1] <= 0)
             /\ record.expiresAt # None
                  => /\ record.expiresAt = Some(IsoFormat(now + p.expires_in_days[1]))
                     /\ rows'[n + 1].expires_at = Some(now + p.expires_in_days[1])
             /\ record.expiresAt = None => rows'[n + 1].expires_at = None]_vars

\* a second key was created with expires_in_days = 0 and no scopes, after one
\* that expires
C37_Witness ==
    /\ ret.op = "create_key"
    /\ Len(rows) = 2
    /\ rows[1].expires_at # None
    /\ ret.args[1].expires_in_days = Some(0)
    /\ ret.args[1].scopes = None
    /\ ret.created[1].expiresAt = None
    /\ ret.created[1].scopes = << >>

====
